---- MODULE Spec2Model ----
(***************************************************************************)
(* A model of the drivetest scraper: the content extractor                 *)
(* (QuestionScraper), the id discoverer (QidScraper), the orchestrator     *)
(* (JSYKSScraper.fill_question_bank) and the scrape command.               *)
(*                                                                         *)
(* Strings are sequences of tokens.  A token is one lexical unit of the    *)
(* markup: a tag, a marker such as the answer marker, a letter, a digit, a *)
(* separator, or an opaque piece of text.  Substring tests, split and the  *)
(* regular expressions of the source are computed on these sequences.      *)
(***************************************************************************)
EXTENDS Integers, Sequences, FiniteSets, TLC

VARIABLES
    ex_pc,          \* extractor harness: "ready", then "done"
    ex_page,        \* extractor harness: the page the site serves for the question
    ex_out,         \* extractor harness: results of the extractor's methods on it
    d_chapters,         \* QidScraper._chapters (a dict: map and key order)
    d_chapt_to_chapturl,\* QidScraper._chapt_to_chapturl (a dict)
    d_chapt_to_urls,    \* QidScraper._chapt_to_urls: chapter -> list of page URLs
    d_connected,        \* QidScraper._connected
    d_pc,           \* "idle", or "set_up_urls" inside connect()
    d_todo,         \* the chapters the loop of _set_up_urls has still to visit
    d_bar,          \* the chapter and first page of the latest loop iteration
    d_res,          \* the latest finished call of the discoverer and its outcome
    run_pc,         \* the position of the scrape command ("off": no run)
    run_chapters,   \* fill_question_bank: the dict get_chapters() returned
    run_todo,       \* fill_question_bank: the chapters still to visit
    run_cur,        \* fill_question_bank: the chapter being filled
    run_qids,       \* fill_question_bank: the ids of that chapter still to visit
    run_attempted,  \* the <<chapter, id>> pairs handed to get_question so far
    run_failed,     \* the <<chapter, id>> pairs whose failure was logged
    run_err,        \* the exception that ended the run, if one did
    qb,             \* the QuestionBank of the run
    db_file,        \* what db.save has written
    run_log,        \* the log records and console messages of the errors
                    \* caught and of the end of the run
    b_res,          \* the latest call on the QuestionBank by itself, its
                    \* outcome and the bank before it
    rec_in,         \* the arguments a record is constructed from
    rec_out         \* the outcome of each record constructor on them

exVars == <<ex_pc, ex_page, ex_out>>
dVars == <<d_chapters, d_chapt_to_chapturl, d_chapt_to_urls, d_connected,
           d_pc, d_todo, d_bar, d_res>>
runVars == <<run_pc, run_chapters, run_todo, run_cur, run_qids, run_attempted,
             run_failed, run_err, qb, db_file, run_log>>
hVars == <<b_res, rec_in, rec_out>>
vars == <<exVars, dVars, runVars, hVars>>

(***************************************************************************)
(* Bounds                                                                  *)
(***************************************************************************)
MaxLines == 5       \* option lines in a generated question fragment
MaxChapters == 2    \* entries of a chapter menu, and the chapter numbers 1..MaxChapters
MaxLinks == 2       \* links of a pagination bar
MaxPages == 2       \* the page counts 0..MaxPages a pagination link may name
MaxOptions == 5     \* the option texts a set of answers is drawn from

(***************************************************************************)
(* Tokens                                                                  *)
(***************************************************************************)
ANS == "answer:"     \* the answer marker of the site
UO  == "<u>"
UC  == "</u>"
DUI == "dui"         \* the "true" option
CUO == "cuo"         \* the "false" option
SEP == ","           \* the full-width enumeration comma
BO  == "<b>"
BC  == "</b>"
BR  == "<br/>"
AO  == "<a>"
AC  == "</a>"
IMG == "<img>"
SP  == " "
Letters == {"A", "B", "C", "D"}

None == <<"None">>       \* Python None, where a string may also stand

(***************************************************************************)
(* Python string primitives on token sequences                             *)
(***************************************************************************)
\* s[i:] starts with p (i is 1-based)
StartsWithAt(s, p, i) ==
    /\ i >= 1
    /\ i + Len(p) - 1 <= Len(s)
    /\ \A k \in 1..Len(p) : s[i + k - 1] = p[k]

\* `p in s`
Contains(s, p) == \E i \in 1..(Len(s) + 1) : StartsWithAt(s, p, i)

\* index of the first token equal to t at or after position i, 0 when none
RECURSIVE IndexFrom(_, _, _)
IndexFrom(s, t, i) ==
    IF i > Len(s) THEN 0
    ELSE IF s[i] = t THEN i
    ELSE IndexFrom(s, t, i + 1)

\* s[i..j] (inclusive), empty when j < i
Slice(s, i, j) == IF j < i THEN <<>> ELSE SubSeq(s, i, j)

\* str.strip()
RECURSIVE LStrip(_)
LStrip(s) == IF s # <<>> /\ Head(s) = SP THEN LStrip(Tail(s)) ELSE s
RECURSIVE RStrip(_)
RStrip(s) ==
    IF s # <<>> /\ s[Len(s)] = SP THEN RStrip(SubSeq(s, 1, Len(s) - 1)) ELSE s
Strip(s) == RStrip(LStrip(s))

\* Outcomes of a call: a returned value or a raised exception
Ret(v) == [ok |-> TRUE, kind |-> "return", msg |-> "", val |-> v]
Raise(k, m) == [ok |-> FALSE, kind |-> k, msg |-> m, val |-> None]

(***************************************************************************)
(* QuestionScraper (src/src/scraper/jsyks_scraper/_question_scraper.py)     *)
(*                                                                         *)
(* A question page is [status, container, h1, img_status]: the HTTP status *)
(* of the page, whether the configured container holds an <h1>, str() of   *)
(* that <h1> as a token sequence, and the HTTP status of its image.        *)
(***************************************************************************)
Is2xx(status) == 200 <= status /\ status < 300

Q_BASE_URL == <<"https://q/", "{id}", ".htm">>      \* site_info["base_url"]
URL_PLACEHOLDER == "{id}"                           \* site_info["url_placeholder"]
IMG_DIR == "img_dir/"                               \* qb.get_img_dir()

\* str.replace of a one-token placeholder
RECURSIVE Replace(_, _, _)
Replace(s, old, new) ==
    IF s = <<>> THEN <<>>
    ELSE (IF Head(s) = old THEN new ELSE <<Head(s)>>) \o Replace(Tail(s), old, new)

format_url(q_id) == Replace(Q_BASE_URL, URL_PLACEHOLDER, q_id)

get_section(page, url) ==
    IF Is2xx(page.status)
    THEN Ret(IF page.container THEN page.h1 ELSE None)
    ELSE Raise("JSYKSConnectionError", <<"Failed to connect to ", url>>)

\* sec.find("a").get_text()
get_q_txt(sec) ==
    IF sec = None
    THEN Raise("AttributeError", <<"'NoneType' object has no attribute 'find'">>)
    ELSE LET a == IndexFrom(sec, AO, 1) IN
         IF a = 0
         THEN Raise("AttributeError",
                    <<"'NoneType' object has no attribute 'get_text'">>)
         ELSE LET e == IndexFrom(sec, AC, a + 1) IN
              Ret(Slice(sec, a + 1, (IF e = 0 THEN Len(sec) ELSE e - 1)))

TF_TRUE_MARK  == <<ANS, UO, DUI, UC>>
TF_FALSE_MARK == <<ANS, UO, CUO, UC>>

\* mutant: only the "true" marker is tested
is_tf_true_only(sec) == Contains(sec, TF_TRUE_MARK)

is_tf(sec) == Contains(sec, TF_TRUE_MARK) \/ Contains(sec, TF_FALSE_MARK)

\* re: (?:<b>)?([A-D]),(.*?)(?:</b>)?<br/>   One match attempt at position i:
\* <<letter, answer, position of the closing <br/>>>, or <<>> when none.
MatchOptionAt(s, i) ==
    LET l == IF StartsWithAt(s, <<BO>>, i) /\ i + 2 <= Len(s)
                 /\ s[i + 1] \in Letters /\ s[i + 2] = SEP
             THEN i + 1
             ELSE IF i + 1 <= Len(s) /\ s[i] \in Letters /\ s[i + 1] = SEP
             THEN i
             ELSE 0
    IN  IF l = 0 THEN <<>>
        ELSE LET br == IndexFrom(s, BR, l + 2) IN
             IF br = 0 THEN <<>>
             ELSE LET last == IF br - 1 >= l + 2 /\ s[br - 1] = BC
                              THEN br - 2 ELSE br - 1
                  IN  <<s[l], Slice(s, l + 2, last), br>>

\* pattern.findall(str(sec)): the non-overlapping matches, left to right
RECURSIVE FindAllOptions(_, _)
FindAllOptions(s, i) ==
    IF i > Len(s) THEN <<>>
    ELSE LET m == MatchOptionAt(s, i) IN
         IF m = <<>> THEN FindAllOptions(s, i + 1)
         ELSE <<m>> \o FindAllOptions(s, m[3] + 1)

\* options[letter.strip()] = answer.strip(): a later match replaces an earlier
RECURSIVE DictOf(_)
DictOf(ms) ==
    IF ms = <<>> THEN <<>>
    ELSE LET rest == DictOf(SubSeq(ms, 1, Len(ms) - 1))
             m == ms[Len(ms)]
         IN  [l \in (DOMAIN rest) \cup {m[1]} |->
                 IF l = m[1] THEN Strip(m[2]) ELSE rest[l]]

extract_4c(sec) == DictOf(FindAllOptions(sec, 1))

Values(d) == {d[k] : k \in DOMAIN d}

get_ops(sec) ==
    IF is_tf(sec)
    THEN Ret({<<DUI>>, <<CUO>>})
    ELSE LET letter_to_answer == extract_4c(sec) IN
         Ret(Values(letter_to_answer))

\* re.search of  answer:<u>([A-D])</u> : position of the first match, 0 when none
RECURSIVE SearchAnswer(_, _)
SearchAnswer(s, i) ==
    IF i + 3 > Len(s) THEN 0
    ELSE IF s[i] = ANS /\ s[i + 1] = UO /\ s[i + 2] \in Letters /\ s[i + 3] = UC
    THEN i
    ELSE SearchAnswer(s, i + 1)

\* mutant: the underlined letter itself is returned, not its option text
get_ans_letter(sec) ==
    IF is_tf(sec)
    THEN IF Contains(sec, TF_TRUE_MARK) THEN Ret(<<DUI>>) ELSE Ret(<<CUO>>)
    ELSE LET match == SearchAnswer(sec, 1) IN
         IF match = 0
         THEN Raise("AttributeError",
                    <<"'NoneType' object has no attribute 'group'">>)
         ELSE Ret(<<sec[match + 2]>>)

get_ans(sec) ==
    IF is_tf(sec)
    THEN IF Contains(sec, TF_TRUE_MARK) THEN Ret(<<DUI>>)
         ELSE IF Contains(sec, TF_FALSE_MARK) THEN Ret(<<CUO>>)
         ELSE Raise("JSYKSContentRetrievalError",
                    <<"Could not determine correct answer for T/F question">>)
    ELSE LET letter_to_answer == extract_4c(sec)
             match == SearchAnswer(sec, 1)
         IN  IF match = 0
             THEN Raise("AttributeError",
                        <<"'NoneType' object has no attribute 'group'">>)
             ELSE LET correct_letter == sec[match + 2] IN
                  IF correct_letter \in DOMAIN letter_to_answer
                  THEN Ret(letter_to_answer[correct_letter])
                  ELSE Raise("KeyError", <<correct_letter>>)

\* sec.find("img")["src"], None when the fragment has no image
extract_img_url(sec) ==
    IF IndexFrom(sec, IMG, 1) # 0 THEN <<"https://img/", "src">> ELSE None

\* The outcome and whether the image file <save_path>/<qid>.webp was written
download_img(qid, img_url, save_path, img_status) ==
    IF Is2xx(img_status)
    THEN [out |-> Ret(<<save_path>> \o qid \o <<".webp">>), written |-> TRUE]
    ELSE [out |-> Raise("JSYKSConnectionError",
                        <<"Failed to download image from ", img_url>>),
          written |-> FALSE]

get_img_path(sec, qid, img_status) ==
    LET img_url == extract_img_url(sec) IN
    IF img_url # None
    THEN download_img(qid, img_url, IMG_DIR, img_status)
    ELSE [out |-> Ret(None), written |-> FALSE]

(***************************************************************************)
(* Question (data_storage/in_memory/question.py): the validating record     *)
(***************************************************************************)
NewQuestion(qid, question, answers, correct_answer, img_path) ==
    [qid |-> qid, question |-> question, answers |-> answers,
     correct_answer |-> correct_answer, img_path |-> img_path]

\* the values that are not strings: None, and the int 123 of the unit tests
NonStr == {None, <<"int 123">>}

\* mutant: the constructor's checks without the one of the image path
check_format_any_img(q) ==
    IF q.qid = <<>> \/ q.qid \in NonStr
    THEN Raise("IncorrectFormatError", <<"qid">>)
    ELSE IF q.question = <<>> \/ q.question \in NonStr
    THEN Raise("IncorrectFormatError", <<"question">>)
    ELSE IF Cardinality(q.answers) < 2 \/ <<>> \in q.answers
    THEN Raise("IncorrectFormatError", <<"answers">>)
    ELSE IF q.correct_answer \notin q.answers
    THEN Raise("IncorrectFormatError", <<"correct_answer">>)
    ELSE Ret(q)

\* The checks of the constructor
check_format(q) ==
    IF q.qid = <<>> \/ q.qid \in NonStr
    THEN Raise("IncorrectFormatError", <<"qid">>)
    ELSE IF q.question = <<>> \/ q.question \in NonStr
    THEN Raise("IncorrectFormatError", <<"question">>)
    ELSE IF Cardinality(q.answers) < 2 \/ <<>> \in q.answers
    THEN Raise("IncorrectFormatError", <<"answers">>)
    ELSE IF q.correct_answer \notin q.answers
    THEN Raise("IncorrectFormatError", <<"correct_answer">>)
    ELSE IF q.img_path # None /\ q.img_path \in NonStr
    THEN Raise("IncorrectFormatError", <<"img_path">>)
    ELSE Ret(q)

Question(qid, question, answers, correct_answer, img_path) ==
    check_format(NewQuestion(qid, question, answers, correct_answer, img_path))

(***************************************************************************)
(* The record classes of scraper/question.py                               *)
(***************************************************************************)
\* Question.__init__ up to check_format: the fields are assigned as given
NewChoiceQuestion(qid, question, answers, correct_answer, image_url) ==
    [qid |-> qid, question |-> question, answers |-> answers,
     correct_answer |-> correct_answer, image_url |-> image_url]

\* mutant: FourChoiceText.check_format without the test of the correct answer
FourChoiceText_check_format_any(q) ==
    IF Cardinality(q.answers) # 4
    THEN Raise("IncorrectFormatError", <<"FourChoiceQ must have exactly 4 answers.">>)
    ELSE IF q.image_url # None
    THEN Raise("IncorrectFormatError", <<"FourChoiceQ should not have an image URL.">>)
    ELSE Ret(q)

\* FourChoiceText.check_format
FourChoiceText_check_format(q) ==
    IF Cardinality(q.answers) # 4
    THEN Raise("IncorrectFormatError", <<"FourChoiceQ must have exactly 4 answers.">>)
    ELSE IF q.correct_answer \notin q.answers
    THEN Raise("IncorrectFormatError",
               <<"Correct answer must be one of the provided answers.">>)
    ELSE IF q.image_url # None
    THEN Raise("IncorrectFormatError", <<"FourChoiceQ should not have an image URL.">>)
    ELSE Ret(q)

\* TwoChoiceText.check_format
TwoChoiceText_check_format(q) ==
    IF Cardinality(q.answers) # 2
    THEN Raise("IncorrectFormatError", <<"TwoChoiceQ must have exactly 2 answers.">>)
    ELSE IF q.correct_answer \notin q.answers
    THEN Raise("IncorrectFormatError",
               <<"Correct answer must be one of the provided answers.">>)
    ELSE Ret(q)

\* FourChoiceImage.check_format
FourChoiceImage_check_format(q) ==
    IF Cardinality(q.answers) # 4
    THEN Raise("IncorrectFormatError",
               <<"FourChoiceImage must have exactly 4 answers.">>)
    ELSE IF q.correct_answer \notin q.answers
    THEN Raise("IncorrectFormatError",
               <<"Correct answer must be one of the provided answers.">>)
    ELSE IF q.image_url = None
    THEN Raise("IncorrectFormatError", <<"FourChoiceImage must have an image URL.">>)
    ELSE Ret(q)

\* TwoChoiceImage.check_format
TwoChoiceImage_check_format(q) ==
    IF Cardinality(q.answers) # 2
    THEN Raise("IncorrectFormatError",
               <<"TwoChoiceImage must have exactly 2 answers.">>)
    ELSE IF q.correct_answer \notin q.answers
    THEN Raise("IncorrectFormatError",
               <<"Correct answer must be one of the provided answers.">>)
    ELSE IF q.image_url = None
    THEN Raise("IncorrectFormatError", <<"TwoChoiceImage must have an image URL.">>)
    ELSE Ret(q)

\* The constructors: the object exists when check_format has not raised
FourChoiceText(qid, question, answers, correct_answer, image_url) ==
    FourChoiceText_check_format(
        NewChoiceQuestion(qid, question, answers, correct_answer, image_url))
TwoChoiceText(qid, question, answers, correct_answer, image_url) ==
    TwoChoiceText_check_format(
        NewChoiceQuestion(qid, question, answers, correct_answer, image_url))
FourChoiceImage(qid, question, answers, correct_answer, image_url) ==
    FourChoiceImage_check_format(
        NewChoiceQuestion(qid, question, answers, correct_answer, image_url))
TwoChoiceImage(qid, question, answers, correct_answer, image_url) ==
    TwoChoiceImage_check_format(
        NewChoiceQuestion(qid, question, answers, correct_answer, image_url))

(***************************************************************************)
(* QuestionScraper.get_question                                            *)
(***************************************************************************)
\* The body of the try block: [out, written]
get_question_body(page, qid) ==
    LET url == format_url(qid)
        section == get_section(page, url)
    IN  IF ~section.ok THEN [out |-> section, written |-> FALSE]
        ELSE
        LET question_text == get_q_txt(section.val) IN
        IF ~question_text.ok THEN [out |-> question_text, written |-> FALSE]
        ELSE
        LET answers == get_ops(section.val)
            correct_answer == get_ans(section.val)
        IN
        IF ~answers.ok THEN [out |-> answers, written |-> FALSE]
        ELSE
        IF ~correct_answer.ok THEN [out |-> correct_answer, written |-> FALSE]
        ELSE
        LET img == get_img_path(section.val, qid, page.img_status) IN
        IF ~img.out.ok THEN img
        ELSE [out |-> Question(qid, question_text.val, answers.val,
                               correct_answer.val, img.out.val),
              written |-> img.written]

ExpectedErrors == {"JSYKSConnectionError", "JSYKSContentRetrievalError"}

\* mutant: no handler for unexpected exceptions
get_question_unwrapped(page, qid) == get_question_body(page, qid)

\* except (JSYKSConnectionError, JSYKSContentRetrievalError): raise
\* except Exception as e: raise JSYKSContentRetrievalError(f"Unexpected error: {e}")
get_question(page, qid) ==
    LET r == get_question_body(page, qid) IN
    IF r.out.ok \/ r.out.kind \in ExpectedErrors THEN r
    ELSE [out |-> Raise("JSYKSContentRetrievalError",
                        <<"Unexpected error: ">> \o r.out.msg),
          written |-> r.written]

(***************************************************************************)
(* The question pages of the extractor harness                             *)
(***************************************************************************)
OptionTexts == <<"t1", "t2", "t3", "t4", "t5", "t6", "t7", "t8">>

\* The text of option line k: distinct per line ("pos"), or the same text
\* on every line, the first with trailing white space ("same"), or with an
\* empty first option ("empty")
OptionText(k, style) ==
    IF style = "pos" THEN <<OptionTexts[k]>>
    ELSE IF style = "same" THEN (IF k = 1 THEN <<"x", SP>> ELSE <<"x">>)
    ELSE (IF k = 1 THEN <<>> ELSE <<OptionTexts[k]>>)

OptionLine(k, letter, style, bold) ==
    (IF bold THEN <<BO>> ELSE <<>>) \o <<letter, SEP>> \o OptionText(k, style)
        \o (IF bold THEN <<BC>> ELSE <<>>) \o <<BR>>

RECURSIVE OptionLines(_, _, _, _)
OptionLines(ls, style, bold, ans) ==
    IF ls = <<>> THEN <<>>
    ELSE OptionLines(SubSeq(ls, 1, Len(ls) - 1), style, bold, ans)
         \o OptionLine(Len(ls), ls[Len(ls)], style, bold /\ ls[Len(ls)] = ans)

AnswerKinds == Letters \cup {"none", "dui", "cuo", "both", "plain"}

AnswerPart(ans) ==
    IF ans \in Letters THEN <<ANS, UO, ans, UC>>
    ELSE IF ans = "dui" THEN TF_TRUE_MARK
    ELSE IF ans = "cuo" THEN TF_FALSE_MARK
    ELSE IF ans = "both" THEN TF_FALSE_MARK \o <<BR>> \o TF_TRUE_MARK
    ELSE IF ans = "plain" THEN <<ANS, "A">>
    ELSE <<>>

LinkPart(link) ==
    IF link = "text" THEN <<AO, "question text", AC, BR>>
    ELSE IF link = "empty" THEN <<AO, AC, BR>>
    ELSE <<BR>>

Fragment(link, ls, style, bold, ans, img) ==
    LinkPart(link) \o (IF img THEN <<IMG, BR>> ELSE <<>>)
        \o OptionLines(ls, style, bold, ans) \o AnswerPart(ans)

LetterSeqs(n) == UNION {[1..k -> Letters] : k \in 0..n}

\* Every fragment body on a well-formed page, and a few bodies on every page shape
SamplePages ==
    {[status |-> 200, container |-> TRUE, img_status |-> 200,
      h1 |-> Fragment("text", ls, style, FALSE, ans, FALSE)] :
        <<ls, style, ans>> \in
            LetterSeqs(MaxLines) \X {"pos", "same"} \X AnswerKinds}
    \cup
    {[status |-> st, container |-> c, img_status |-> ist,
      h1 |-> Fragment(link, ls, style, bold, ans, img)] :
        <<st, c, ist, link, img, ls, style, bold, ans>> \in
            {200, 404} \X BOOLEAN \X {200, 404} \X {"text", "empty", "none"}
            \X BOOLEAN \X {<<>>, <<"A", "B", "C", "D">>, <<"A", "B", "C">>}
            \X {"pos", "empty"} \X BOOLEAN \X {"A", "D", "dui", "none"}}

SAMPLE_QID == <<"q1">>


(***************************************************************************)
(* QidScraper (src/src/scraper/jsyks_scraper/_qid_scraper.py)               *)
(***************************************************************************)
DI    == "di"        \* the ordinal prefix of a chapter title
ZHANG == "zhang"     \* the word "chapter" of a chapter title
COLON == "colon"     \* the full-width colon
US    == "_"
SLASH == "/"
DOT   == "."
LAST_PAGE == "last page"    \* the label of the last-page link
DigitStr == <<"0", "1", "2", "3", "4", "5", "6", "7", "8", "9">>
Digits == {DigitStr[i] : i \in 1..Len(DigitStr)}
DigitVal(d) == (CHOOSE i \in 1..Len(DigitStr) : DigitStr[i] = d) - 1

\* str.split(sep) for a one-token separator
RECURSIVE Split(_, _)
Split(s, sep) ==
    LET i == IndexFrom(s, sep, 1) IN
    IF i = 0 THEN <<s>>
    ELSE <<Slice(s, 1, i - 1)>> \o Split(Slice(s, i + 1, Len(s)), sep)

\* int(s) for a string of decimal digits; IsInt(s) when int(s) does not raise
IsInt(s) == s # <<>> /\ \A i \in 1..Len(s) : s[i] \in Digits
RECURSIVE ToInt(_)
ToInt(s) ==
    IF s = <<>> THEN 0
    ELSE 10 * ToInt(SubSeq(s, 1, Len(s) - 1)) + DigitVal(s[Len(s)])

\* f"{i}" for i >= 0
RECURSIVE IntToStr(_)
IntToStr(i) ==
    IF i < 10 THEN <<DigitStr[i + 1]>>
    ELSE IntToStr(i \div 10) \o <<DigitStr[(i % 10) + 1]>>

D_BASE_URL == <<"https://tiba/kmytk">>       \* config "base_url"

\* re.search of  di(\d+)zhang : <<first digit, last digit>> of the first
\* match, <<>> when there is none
RECURSIVE DigitsEnd(_, _)
DigitsEnd(s, i) ==
    IF i <= Len(s) /\ s[i] \in Digits THEN DigitsEnd(s, i + 1) ELSE i - 1
RECURSIVE SearchChapterNum(_, _)
SearchChapterNum(s, i) ==
    IF i > Len(s) THEN <<>>
    ELSE LET e == DigitsEnd(s, i + 1) IN
         IF s[i] = DI /\ e >= i + 1 /\ e + 1 <= Len(s) /\ s[e + 1] = ZHANG
         THEN <<i + 1, e>>
         ELSE SearchChapterNum(s, i + 1)

\* A Python dict: the mapping and the insertion order of its keys
DictSet(d, k, v) ==
    [map |-> [x \in (DOMAIN d.map) \cup {k} |-> IF x = k THEN v ELSE d.map[x]],
     keys |-> IF k \in DOMAIN d.map THEN d.keys ELSE Append(d.keys, k)]
EmptyDict == [map |-> <<>>, keys |-> <<>>]

\* One iteration of the loop of _extract_chapters over an entry
\* li = [a, text, href]: the outcome is the chapter number
extract_chapter(li) ==
    IF ~li.a
    THEN Raise("AttributeError",
               <<"'NoneType' object has no attribute 'get_text'">>)
    ELSE LET parts == Split(li.text, COLON) IN
         IF Len(parts) # 2
         THEN Raise("ValueError", <<"values to unpack (expected 2)">>)
         ELSE LET m == SearchChapterNum(parts[1], 1) IN
              IF m = <<>>
              THEN Raise("AttributeError",
                         <<"'NoneType' object has no attribute 'group'">>)
              ELSE Ret([chapter_num |-> ToInt(SubSeq(parts[1], m[1], m[2])),
                        descr |-> Strip(parts[2]),
                        href |-> li.href])

\* _extract_chapters: the entries are stored one by one until one fails
RECURSIVE extract_chapters(_, _, _)
extract_chapters(section, chapters, chapt_to_chapturl) ==
    IF section = <<>>
    THEN [out |-> Ret(None), chapters |-> chapters,
          chapt_to_chapturl |-> chapt_to_chapturl]
    ELSE LET r == extract_chapter(Head(section)) IN
         IF ~r.ok
         THEN [out |-> r, chapters |-> chapters,
               chapt_to_chapturl |-> chapt_to_chapturl]
         ELSE extract_chapters(
                  Tail(section),
                  DictSet(chapters, r.val.chapter_num, r.val.descr),
                  DictSet(chapt_to_chapturl, r.val.chapter_num, r.val.href))

\* page_bar.find('a', string=LAST_PAGE): index of the link, 0 when none
RECURSIVE FindLastPageButton(_, _)
FindLastPageButton(page_bar, i) ==
    IF i > Len(page_bar) THEN 0
    ELSE IF page_bar[i].string = LAST_PAGE THEN i
    ELSE FindLastPageButton(page_bar, i + 1)

\* The URL of the link _extract_urls parses
\* mutant: without a last-page link the final link of the bar is read
last_page_url_final(page_bar) ==
    LET b == FindLastPageButton(page_bar, 1) IN
    IF b # 0 THEN Ret(page_bar[b].href)
    ELSE IF Len(page_bar) < 1
    THEN Raise("IndexError", <<"list index out of range">>)
    ELSE Ret(page_bar[Len(page_bar)].href)

last_page_url(page_bar) ==
    LET last_page_button == FindLastPageButton(page_bar, 1) IN
    IF last_page_button # 0
    THEN Ret(page_bar[last_page_button].href)
    ELSE IF Len(page_bar) < 2
    THEN Raise("IndexError", <<"list index out of range">>)
    ELSE Ret(page_bar[Len(page_bar) - 1].href)

PageUrl(chapter_code, i) == D_BASE_URL \o <<US>> \o chapter_code \o <<US>> \o IntToStr(i)

\* _extract_urls: the page URLs appended to the chapter's list `urls`
extract_urls(page_bar, urls) ==
    LET u == last_page_url(page_bar) IN
    IF ~u.ok THEN u
    ELSE IF u.val = None
    THEN Raise("AttributeError",
               <<"'NoneType' object has no attribute 'split'">>)
    ELSE LET parts == Split(u.val, US) IN
         IF Len(parts) # 3
         THEN Raise("ValueError", <<"values to unpack (expected 3)">>)
         ELSE IF ~IsInt(parts[3])
         THEN Raise("ValueError", <<"invalid literal for int() with base 10">>)
         ELSE LET page_count == ToInt(parts[3]) IN
              Ret(urls \o [i \in 1..page_count |-> PageUrl(parts[2], i)])

\* One iteration of the loop of _set_up_urls, on the chapter's first page
\* [status, page_bar]: the chapter's list is emptied, then filled
set_up_urls(page, chapter_url) ==
    IF Is2xx(page.status)
    THEN extract_urls(page.page_bar, <<>>)
    ELSE Raise("JSYKSConnectionError", <<"Failed to connect to ", chapter_url>>)

NOT_CONNECTED == <<"Not connected to jsyks site. Call connect() first.">>

\* mutant: the chapter list is handed out whatever the connection state
get_chapters_unguarded(connected, chapters) == Ret(chapters)

get_chapters(connected, chapters) ==
    IF ~connected
    THEN Raise("JSYKSContentRetrievalError", NOT_CONNECTED)
    ELSE Ret(chapters)

\* _extract_qid: the ids of the anchors of a listing section
RECURSIVE extract_qid(_)
extract_qid(a_tags) ==
    IF a_tags = <<>> THEN Ret({})
    ELSE LET url == Head(a_tags) IN
         IF url = None
         THEN Raise("AttributeError",
                    <<"'NoneType' object has no attribute 'split'">>)
         ELSE LET parts == Split(url, SLASH) IN
              IF Len(parts) < 3
              THEN Raise("IndexError", <<"list index out of range">>)
              ELSE LET rest == extract_qid(Tail(a_tags)) IN
                   IF ~rest.ok THEN rest
                   ELSE Ret({Split(parts[3], DOT)[1]} \cup rest.val)

\* mutant: a listing page that cannot be fetched or read gives no ids
get_qids_of_page_skip(page, url) ==
    IF Is2xx(page.status) /\ extract_qid(page.a_tags).ok
    THEN extract_qid(page.a_tags)
    ELSE Ret({})

\* _get_qid_section followed by _extract_qid, for a listing page [status, a_tags]
get_qids_of_page(page, url) ==
    IF Is2xx(page.status)
    THEN extract_qid(page.a_tags)
    ELSE Raise("JSYKSConnectionError", <<"Failed to connect to ">> \o url)

\* The loops of get_chapter_to_qids from chapter keys[k] and its page j on;
\* site[url] is the listing page served for url, acc the mapping so far
RECURSIVE qids_loop(_, _, _, _, _, _)
qids_loop(keys, chapt_to_urls, site, k, j, acc) ==
    IF k > Len(keys) THEN Ret(acc)
    ELSE LET chapter == keys[k]
             acc1 == IF j = 1
                     THEN [c \in (DOMAIN acc) \cup {chapter} |->
                              IF c = chapter THEN {} ELSE acc[c]]
                     ELSE acc
         IN  IF chapter \notin DOMAIN chapt_to_urls
             THEN Raise("KeyError", <<"chapter">>)
             ELSE IF j > Len(chapt_to_urls[chapter])
             THEN qids_loop(keys, chapt_to_urls, site, k + 1, 1, acc1)
             ELSE LET url == chapt_to_urls[chapter][j]
                      r == get_qids_of_page(site[url], url)
                  IN  IF ~r.ok THEN r
                      ELSE qids_loop(keys, chapt_to_urls, site, k, j + 1,
                               [acc1 EXCEPT ![chapter] = @ \cup r.val])

get_chapter_to_qids(connected, chapters, chapt_to_urls, site) ==
    IF ~connected
    THEN Raise("JSYKSContentRetrievalError", NOT_CONNECTED)
    ELSE qids_loop(chapters.keys, chapt_to_urls, site, 1, 1, <<>>)

(***************************************************************************)
(* The discoverer object and the steps of connect()                        *)
(***************************************************************************)
NoBar == [chapter |-> 0, page |-> [status |-> 0, page_bar |-> <<>>]]
NoCall == [op |-> "none", out |-> Ret(None)]

\* QidScraper.__init__
DInit ==
    /\ d_chapters = EmptyDict
    /\ d_chapt_to_chapturl = EmptyDict
    /\ d_chapt_to_urls = <<>>
    /\ d_connected = FALSE
    /\ d_pc = "idle"
    /\ d_todo = <<>>
    /\ d_bar = NoBar
    /\ d_res = NoCall

\* connect() up to the loop of _set_up_urls: the root page [status, menu] is
\* fetched and parsed whatever its status, and its entries are stored; d_bar
\* keeps the response under chapter 0
connect_begin(root) ==
    \E r \in {extract_chapters(root.menu, d_chapters, d_chapt_to_chapturl)} :
    /\ d_pc = "idle"
    /\ d_chapters' = r.chapters
    /\ d_chapt_to_chapturl' = r.chapt_to_chapturl
    /\ d_bar' = [chapter |-> 0,
                 page |-> [status |-> root.status, page_bar |-> <<>>]]
    /\ IF r.out.ok
       THEN /\ d_pc' = "set_up_urls"
            /\ d_todo' = r.chapters.keys
            /\ d_res' = NoCall
       ELSE /\ d_pc' = "idle"
            /\ d_todo' = <<>>
            /\ d_res' = [op |-> "connect", stage |-> "_extract_chapters",
                         out |-> r.out]
    /\ UNCHANGED <<d_chapt_to_urls, d_connected>>

\* mutant: a chapter whose pagination cannot be read is skipped
connect_set_up_urls_skip(page) ==
    \E chapter \in {Head(d_todo)} :
    \E r \in {set_up_urls(page, d_chapt_to_chapturl.map[chapter])} :
        /\ d_pc = "set_up_urls" /\ d_todo # <<>>
        /\ d_bar' = [chapter |-> chapter, page |-> page]
        /\ d_chapt_to_urls' =
              [c \in (DOMAIN d_chapt_to_urls) \cup {chapter} |->
                  IF c = chapter THEN (IF r.ok THEN r.val ELSE <<>>)
                  ELSE d_chapt_to_urls[c]]
        /\ d_pc' = "set_up_urls"
        /\ d_todo' = Tail(d_todo)
        /\ d_res' = IF r.ok THEN d_res
                     ELSE [op |-> "connect", stage |-> "_set_up_urls",
                           out |-> r]
        /\ UNCHANGED <<d_chapters, d_chapt_to_chapturl, d_connected>>

\* One iteration of the loop of _set_up_urls inside connect(), the chapter's
\* first page being `page`
connect_set_up_urls(page) ==
    \E chapter \in {Head(d_todo)} :
    \E r \in {set_up_urls(page, d_chapt_to_chapturl.map[chapter])} :
        /\ d_pc = "set_up_urls" /\ d_todo # <<>>
        /\ d_bar' = [chapter |-> chapter, page |-> page]
        /\ d_chapt_to_urls' =
              [c \in (DOMAIN d_chapt_to_urls) \cup {chapter} |->
                  IF c = chapter THEN (IF r.ok THEN r.val ELSE <<>>)
                  ELSE d_chapt_to_urls[c]]
        /\ IF r.ok
           THEN /\ d_pc' = "set_up_urls"
                /\ d_todo' = Tail(d_todo)
                /\ d_res' = d_res
           ELSE /\ d_pc' = "idle"
                /\ d_todo' = <<>>
                /\ d_res' = [op |-> "connect", stage |-> "_set_up_urls",
                             out |-> r]
        /\ UNCHANGED <<d_chapters, d_chapt_to_chapturl, d_connected>>

\* The end of connect(): self._connected = True
connect_end ==
    /\ d_pc = "set_up_urls" /\ d_todo = <<>>
    /\ d_connected' = TRUE
    /\ d_pc' = "idle"
    /\ d_bar' = NoBar
    /\ d_res' = [op |-> "connect", stage |-> "done", out |-> Ret(None)]
    /\ UNCHANGED <<d_chapters, d_chapt_to_chapturl, d_chapt_to_urls, d_todo>>

(***************************************************************************)
(* The site as the discoverer harness sees it                              *)
(***************************************************************************)
ChapterNums == 1..MaxChapters
ChapterCode(n) == <<"150">> \o IntToStr(n)
ChapterUrl(n) == D_BASE_URL \o <<US>> \o ChapterCode(n)

Entry(n, descr) ==
    [a |-> TRUE, href |-> ChapterUrl(n),
     text |-> <<DI>> \o IntToStr(n) \o <<ZHANG, COLON>> \o descr]

BadEntries ==
    {[a |-> FALSE, href |-> None, text |-> <<>>],
     [a |-> TRUE, href |-> ChapterUrl(1), text |-> <<DI, "1", ZHANG, "a", "b">>],
     [a |-> TRUE, href |-> ChapterUrl(1), text |-> <<"intro", COLON, "a", "b">>]}

SeqsUpTo(S, n) == UNION {[1..k -> S] : k \in 0..n}

\* Menus: distinct chapters in any order, possibly ended by an unreadable entry
Menus(good, bad) ==
    LET distinct == {m \in SeqsUpTo(good, MaxChapters) :
                        \A i, j \in 1..Len(m) : i # j => m[i] # m[j]}
    IN  distinct \cup {Append(m, b) : m \in {x \in distinct : Len(x) < MaxChapters},
                                      b \in bad}

RootPages(good, bad) ==
    {[status |-> 200, menu |-> m] : m \in Menus(good, bad)}
    \cup {[status |-> 404, menu |-> <<>>]}

HarnessEntries == {Entry(n, <<SP, "a", "b">>) : n \in ChapterNums}

\* hrefs of pagination links for chapter n
GoodHref(n, pages) == <<"kmytk">> \o <<US>> \o ChapterCode(n) \o <<US>> \o IntToStr(pages)
Links(n) ==
    {[string |-> LAST_PAGE, href |-> GoodHref(n, MaxPages)],
     [string |-> LAST_PAGE, href |-> <<"kmytk">> \o <<US>> \o ChapterCode(n)],
     [string |-> "next", href |-> <<"kmytk", US, "150", US, "x">>],
     [string |-> "n", href |-> GoodHref(n, MaxPages - 1)]}

BarPages(n) ==
    {[status |-> 200, page_bar |-> b] : b \in SeqsUpTo(Links(n), MaxLinks)}
    \cup {[status |-> 404, page_bar |-> <<>>]}

\* Listing pages: the anchors each page URL shows, per sample site
PostHref(id) == <<SLASH, "Post", SLASH, id, DOT, "htm">>
SiteVariants == {"disjoint", "overlap", "malformed", "unreachable", "foreign"}
Anchors(variant, n, i) ==
    IF variant = "overlap"
    THEN <<PostHref("a"), PostHref(DigitStr[n + 1]), PostHref("a")>>
    ELSE IF variant = "foreign" /\ i = 1
    THEN <<PostHref(DigitStr[n + 1]), <<SLASH, "Tag", SLASH, "z", DOT, "htm">> >>
    ELSE IF variant = "malformed" /\ i = MaxPages
    THEN <<PostHref("a"), <<"Post">> >>
    ELSE <<PostHref(DigitStr[n + 1] \o "-" \o DigitStr[i + 1])>>

\* The listing page the sample site serves for a page URL
ListingPage(variant, url) ==
    LET parts == Split(url, US)
        n == ToInt(Tail(parts[2]))
        i == ToInt(parts[3])
    IN  IF variant = "unreachable" /\ i = MaxPages
        THEN [status |-> 404, a_tags |-> <<>>]
        ELSE [status |-> 200, a_tags |-> Anchors(variant, n, i)]

\* The listing pages of a sample site, for the page URLs of the page lists
SiteOf(variant, chapt_to_urls) ==
    [url \in UNION {{chapt_to_urls[c][i] : i \in 1..Len(chapt_to_urls[c])} :
                        c \in DOMAIN chapt_to_urls}
        |-> ListingPage(variant, url)]

(***************************************************************************)
(* QuestionBank (data_storage/in_memory/question_bank.py)                   *)
(***************************************************************************)
EmptyBank == [chapters |-> <<>>, chap_to_ids |-> <<>>, id_to_q |-> <<>>,
              img_dir |-> IMG_DIR]

Extend(f, k, v) == [x \in (DOMAIN f) \cup {k} |-> IF x = k THEN v ELSE f[x]]

\* mutant: a chapter added again takes the new description
add_chapter_again(bank, chapter_num, description) ==
    Ret([bank EXCEPT
            !.chapters = Extend(bank.chapters, chapter_num, description),
            !.chap_to_ids = Extend(bank.chap_to_ids, chapter_num,
                IF chapter_num \in DOMAIN bank.chap_to_ids
                THEN bank.chap_to_ids[chapter_num] ELSE {})])

add_chapter(bank, chapter_num, description) ==
    IF chapter_num \in DOMAIN bank.chapters
    THEN Raise("ValueError", <<"chapter already exists">>)
    ELSE Ret([bank EXCEPT
                 !.chapters = Extend(bank.chapters, chapter_num, description),
                 !.chap_to_ids = Extend(bank.chap_to_ids, chapter_num, {})])

\* the chapters whose id set holds qid
chapters_of(bank, qid) ==
    {c \in DOMAIN bank.chap_to_ids : qid \in bank.chap_to_ids[c]}

\* mutant: an id already in the bank is registered under the new chapter too
add_question_anywhere(bank, question, chapter_num) ==
    IF chapter_num \notin DOMAIN bank.chapters
    THEN Raise("KeyError", <<"chapter">>)
    ELSE Ret([bank EXCEPT
                 !.id_to_q = Extend(bank.id_to_q, question.qid, question),
                 !.chap_to_ids = Extend(bank.chap_to_ids, chapter_num,
                                    bank.chap_to_ids[chapter_num] \cup {question.qid})])

\* mutant: the record is stored without being registered under the chapter
add_question_unregistered(bank, question, chapter_num) ==
    IF chapter_num \notin DOMAIN bank.chapters
    THEN Raise("KeyError", <<"chapter">>)
    ELSE Ret([bank EXCEPT
                 !.id_to_q = Extend(bank.id_to_q, question.qid, question)])

\* mutant: a chapter that is not in the bank is made on the way
add_question_new_chapter(bank, question, chapter_num) ==
    IF chapters_of(bank, question.qid) \ {chapter_num} # {}
    THEN Raise("ValueError", <<"question id in another chapter">>)
    ELSE Ret([bank EXCEPT
                 !.id_to_q = Extend(bank.id_to_q, question.qid, question),
                 !.chap_to_ids = Extend(bank.chap_to_ids, chapter_num,
                     (IF chapter_num \in DOMAIN bank.chap_to_ids
                      THEN bank.chap_to_ids[chapter_num] ELSE {})
                     \cup {question.qid})])

add_question(bank, question, chapter_num) ==
    IF chapter_num \notin DOMAIN bank.chapters
    THEN Raise("KeyError", <<"chapter">>)
    ELSE IF chapters_of(bank, question.qid) \ {chapter_num} # {}
    THEN Raise("ValueError", <<"question id in another chapter">>)
    ELSE Ret([bank EXCEPT
                 !.id_to_q = Extend(bank.id_to_q, question.qid, question),
                 !.chap_to_ids = Extend(bank.chap_to_ids, chapter_num,
                                    bank.chap_to_ids[chapter_num] \cup {question.qid})])

\* question_count() without a chapter: the number of records of the bank
question_count_all(bank) == Cardinality(DOMAIN bank.id_to_q)

\* mutant: a chapter that is not in the bank counts no question
question_count_lenient(bank, chapter_num) ==
    IF chapter_num \notin DOMAIN bank.chapters
    THEN Ret(0)
    ELSE Ret(Cardinality(bank.chap_to_ids[chapter_num]))

question_count(bank, chapter_num) ==
    IF chapter_num \notin DOMAIN bank.chapters
    THEN Raise("KeyError", <<"chapter">>)
    ELSE Ret(Cardinality(bank.chap_to_ids[chapter_num]))

\* mutant: the description of a chapter is its number
describe_chapter_number(bank, chapter_num) ==
    IF chapter_num \notin DOMAIN bank.chapters
    THEN Raise("LookupError", <<"chapter">>)
    ELSE Ret(IntToStr(chapter_num))

describe_chapter(bank, chapter_num) ==
    IF chapter_num \notin DOMAIN bank.chapters
    THEN Raise("LookupError", <<"chapter">>)
    ELSE Ret(bank.chapters[chapter_num])

get_qids_by_chapter(bank, chapter_num) ==
    IF chapter_num \notin DOMAIN bank.chapters
    THEN Raise("LookupError", <<"chapter">>)
    ELSE Ret(bank.chap_to_ids[chapter_num])

\* mutant: an id that is not in the bank gives None
qb_get_question_or_none(bank, qid) ==
    IF qid \notin DOMAIN bank.id_to_q
    THEN Ret(None)
    ELSE Ret(bank.id_to_q[qid])

\* QuestionBank.get_question
qb_get_question(bank, qid) ==
    IF qid \notin DOMAIN bank.id_to_q
    THEN Raise("LookupError", <<"question">>)
    ELSE Ret(bank.id_to_q[qid])

(***************************************************************************)
(* LocalJsonDB (data_storage/database/local_json_db.py)                    *)
(***************************************************************************)
DB_PATH == "data_storage/database/local_json_db/data.json"
DB_IMG_DIR == "data_storage/database/local_json_db/images"
\* no JSON file, no image in the image directory of the database
NoFile == [written |-> FALSE, images |-> {}]

\* list(a_set), in some order
RECURSIVE ListOf(_)
ListOf(S) ==
    IF S = {} THEN <<>>
    ELSE LET x == CHOOSE y \in S : TRUE IN <<x>> \o ListOf(S \ {x})
\* set(a_list)
SetOf(list) == {list[i] : i \in 1..Len(list)}

\* _make_img_path
make_img_path(img_dir, question) == <<img_dir>> \o question.qid

\* _serialize_question_bank: the dictionary json.dump writes, its chapter
\* keys being str(chap_num)
serialize_question_bank(bank, img_dir) ==
    LET nums == DOMAIN bank.chapters
        keys == {IntToStr(n) : n \in nums}
    IN  [chapters |-> [k \in keys |-> describe_chapter(bank, ToInt(k)).val],
         chap_to_qids |->
             [k \in keys |-> ListOf(get_qids_by_chapter(bank, ToInt(k)).val)],
         questions |->
             [qid \in UNION {get_qids_by_chapter(bank, n).val : n \in nums} |->
                 LET question == qb_get_question(bank, qid).val IN
                 [qid |-> question.qid,
                  question |-> question.question,
                  answers |-> ListOf(question.answers),
                  correct_answer |-> question.correct_answer,
                  img_path |-> make_img_path(img_dir, question)]],
         img_dir |-> img_dir]

\* _copy_images: the files copied, `existing` being the paths that exist
copy_images(bank, img_dir, existing) ==
    {make_img_path(img_dir, bank.id_to_q[q_id]) :
        q_id \in {i \in UNION {bank.chap_to_ids[n] : n \in DOMAIN bank.chapters} :
                    /\ bank.id_to_q[i].img_path # None
                    /\ bank.id_to_q[i].img_path \in existing}}

\* print(f"Error saving question bank: {e}"), e being the error of open()
SAVE_ERROR ==
    [stream |-> "stdout", level |-> "",
     msg |-> <<"Error saving question bank: ", "Permission denied: ", DB_PATH>>]

\* save: [ok, printed, file]; the JSON file cannot be opened when ~writable,
\* after the images were copied
save(bank, img_dir, existing, writable, file) ==
    LET data == serialize_question_bank(bank, img_dir)
        images == file.images \cup copy_images(bank, img_dir, existing)
    IN  IF writable
        THEN [ok |-> TRUE, printed |-> {},
              file |-> [written |-> TRUE, data |-> data, images |-> images]]
        ELSE [ok |-> FALSE, printed |-> {SAVE_ERROR},
              file |-> [file EXCEPT !.images = images]]

\* the first loop of _deserialize_question_bank, over the keys of
\* data["chapters"] in the order they were written (ascending)
RECURSIVE load_chapters(_, _, _)
load_chapters(bank, data, keys) ==
    IF keys = {} THEN Ret(bank)
    ELSE LET k == CHOOSE x \in keys : \A y \in keys : ToInt(x) <= ToInt(y)
             r == add_chapter(bank, ToInt(k), data.chapters[k])
         IN  IF ~r.ok THEN r ELSE load_chapters(r.val, data, keys \ {k})

\* the chapters whose list holds qid, as numbers
chapters_listing(data, qid) ==
    {ToInt(k) : k \in {x \in DOMAIN data.chap_to_qids :
                          qid \in SetOf(data.chap_to_qids[x])}}

\* the second loop: each question goes to the first chapter that lists it
RECURSIVE load_questions(_, _, _)
load_questions(bank, data, qids) ==
    IF qids = {} THEN Ret(bank)
    ELSE LET qid == CHOOSE x \in qids : TRUE
             listing == chapters_listing(data, qid)
         IN  IF listing = {} THEN load_questions(bank, data, qids \ {qid})
             ELSE LET chapter_num == CHOOSE c \in listing : \A d \in listing : c <= d
                      q_data == data.questions[qid]
                      question == Question(q_data.qid, q_data.question,
                                           SetOf(q_data.answers),
                                           q_data.correct_answer, q_data.img_path)
                  IN  IF ~question.ok THEN question
                      ELSE LET r == add_question(bank, question.val, chapter_num)
                           IN  IF ~r.ok THEN r
                               ELSE load_questions(r.val, data, qids \ {qid})

\* _deserialize_question_bank
deserialize_question_bank(data, img_dir) ==
    LET bank == [EmptyBank EXCEPT !.img_dir = img_dir] IN
    IF DOMAIN data.chapters = {} THEN Ret(bank)
    ELSE LET r == load_chapters(bank, data, DOMAIN data.chapters) IN
         IF ~r.ok THEN r
         ELSE load_questions(r.val, data, DOMAIN data.questions)

\* mutant: load gives the questions no image path
load_without_images(file, img_dir) ==
    IF ~file.written
    THEN Raise("FileNotFoundError", <<"Database file not found">>)
    ELSE LET r == deserialize_question_bank(file.data, img_dir) IN
         IF ~r.ok THEN Raise("RuntimeError", <<"Error loading question bank">>)
         ELSE Ret([r.val EXCEPT !.id_to_q =
                      [i \in DOMAIN r.val.id_to_q |->
                          [r.val.id_to_q[i] EXCEPT !.img_path = None]]])

\* load
load(file, img_dir) ==
    IF ~file.written
    THEN Raise("FileNotFoundError", <<"Database file not found">>)
    ELSE LET r == deserialize_question_bank(file.data, img_dir) IN
         IF r.ok THEN r
         ELSE Raise("RuntimeError", <<"Error loading question bank">>)

(***************************************************************************)
(* The scrape command (main.scrape) with JSYKSScraper                      *)
(***************************************************************************)
NoError == Ret(None)

RunOff ==
    /\ run_pc = "off"
    /\ run_chapters = EmptyDict
    /\ run_todo = <<>>
    /\ run_cur = 0
    /\ run_qids = <<>>
    /\ run_attempted = {}
    /\ run_failed = {}
    /\ run_err = NoError
    /\ qb = EmptyBank
    /\ db_file = NoFile
    /\ run_log = {}

Abort(exc) ==
    /\ run_pc' = "aborted"
    /\ run_err' = exc

\* scrape() up to the fetch of the root page: the empty bank is made and
\* JSYKSScraper.__init__ makes the QidScraper and calls connect()
scrape_begin(root) ==
    /\ run_pc = "start"
    /\ connect_begin(root)
    /\ run_pc' = "connecting"
    /\ qb' = EmptyBank
    /\ UNCHANGED <<run_chapters, run_todo, run_cur, run_qids, run_attempted,
                   run_failed, run_log, run_err, db_file>>

\* connect() has returned or raised inside JSYKSScraper.__init__; nothing
\* catches what it raises
scraper_init_end ==
    /\ run_pc = "connecting" /\ d_pc = "idle"
    /\ IF d_res.out.ok
       THEN run_pc' = "fill" /\ run_err' = run_err
       ELSE Abort(d_res.out)
    /\ UNCHANGED <<run_chapters, run_todo, run_cur, run_qids, run_attempted,
                   run_failed, run_log, qb, db_file>>
    /\ UNCHANGED dVars

\* fill_question_bank: chapters = self.qid_scraper.get_chapters()
fill_get_chapters ==
    /\ run_pc = "fill"
    /\ \E r \in {get_chapters(d_connected, d_chapters)} :
          IF r.ok
          THEN /\ run_chapters' = r.val
               /\ run_todo' = r.val.keys
               /\ run_pc' = "chapters"
               /\ run_err' = run_err
          ELSE /\ Abort(r)
               /\ UNCHANGED <<run_chapters, run_todo>>
    /\ UNCHANGED <<run_cur, run_qids, run_attempted, run_failed, run_log, qb, db_file>>
    /\ UNCHANGED dVars

\* The head of the chapter loop: the item's value, a description string, is
\* unpacked into (chapter_desc, qids), then the chapter is added to the bank
fill_chapter ==
    /\ run_pc = "chapters" /\ run_todo # <<>>
    /\ \E chapter_num \in {Head(run_todo)} :
       \E value \in {run_chapters.map[chapter_num]} :
          IF Len(value) # 2
          THEN /\ Abort(Raise("ValueError", <<"values to unpack (expected 2)">>))
               /\ UNCHANGED <<run_todo, run_cur, run_qids, qb>>
          ELSE \E added \in {add_chapter(qb, chapter_num, <<value[1]>>)} :
                  IF ~added.ok
                  THEN /\ Abort(added)
                       /\ UNCHANGED <<run_todo, run_cur, run_qids, qb>>
                  ELSE /\ qb' = added.val
                       /\ run_cur' = chapter_num
                       /\ run_qids' = <<value[2]>>
                       /\ run_todo' = Tail(run_todo)
                       /\ run_pc' = "questions"
                       /\ run_err' = run_err
    /\ UNCHANGED <<run_chapters, run_attempted, run_failed, run_log, db_file>>
    /\ UNCHANGED dVars

\* logger.error(f"Error scraping question {qid}: {e}")
question_error(qid, e) ==
    [stream |-> "log", level |-> "error",
     msg |-> <<"Error scraping question ">> \o qid \o <<": ", e.kind>>]

\* One iteration of the question loop, the site serving `page` for the id:
\* any exception of get_question or add_question is logged, and the loop goes on
fill_question(page) ==
    /\ run_pc = "questions" /\ run_qids # <<>>
    /\ \E qid \in {<<Head(run_qids)>>} :
       \E r \in {get_question(page, qid).out} :
          /\ run_attempted' = run_attempted \cup {<<run_cur, qid>>}
          /\ IF r.ok
             THEN \E added \in {add_question(qb, r.val, run_cur)} :
                     IF added.ok
                     THEN /\ qb' = added.val /\ run_failed' = run_failed
                          /\ run_log' = run_log
                     ELSE /\ qb' = qb
                          /\ run_failed' = run_failed \cup {<<run_cur, qid>>}
                          /\ run_log' = run_log \cup {question_error(qid, added)}
             ELSE /\ qb' = qb
                  /\ run_failed' = run_failed \cup {<<run_cur, qid>>}
                  /\ run_log' = run_log \cup {question_error(qid, r)}
    /\ run_qids' = Tail(run_qids)
    /\ UNCHANGED <<run_pc, run_chapters, run_todo, run_cur, run_err, db_file>>
    /\ UNCHANGED dVars

\* The end of the question loop: the chapter's count is logged
fill_chapter_end ==
    /\ run_pc = "questions" /\ run_qids = <<>>
    /\ IF question_count(qb, run_cur).ok
       THEN run_pc' = "chapters" /\ run_err' = run_err
       ELSE Abort(question_count(qb, run_cur))
    /\ UNCHANGED <<run_chapters, run_todo, run_cur, run_qids, run_attempted,
                   run_failed, run_log, qb, db_file>>
    /\ UNCHANGED dVars

\* logger.info of scrape() after db.save(qb), print of main() after scrape()
SUCCESS_LOG ==
    [stream |-> "log", level |-> "info",
     msg |-> <<"Questions successfully downloaded to database.">>]
COMPLETE_MSG == [stream |-> "stdout", level |-> "", msg |-> <<"Scraping complete.">>]

\* scrape() after fill_question_bank: db.save(qb), which reports a failure by
\* printing and by its return value; scrape() does not read it and logs the
\* success, and main() prints the completion when scrape() has returned
scrape_save(saved) ==
    /\ run_pc = "chapters" /\ run_todo = <<>>
    /\ \E r \in {save(qb, DB_IMG_DIR, {q.img_path : q \in Values(qb.id_to_q)},
                      saved, db_file)} :
          /\ db_file' = r.file
          /\ run_log' = run_log \cup r.printed \cup {SUCCESS_LOG, COMPLETE_MSG}
    /\ run_pc' = "done"
    /\ UNCHANGED <<run_chapters, run_todo, run_cur, run_qids, run_attempted,
                   run_failed, run_err, qb>>
    /\ UNCHANGED dVars

(***************************************************************************)
(* The site as the run sees it                                             *)
(***************************************************************************)
RunEntries ==
    {Entry(n, descr) : n \in ChapterNums, descr \in {<<"a", "b">>, <<"c", "d">>, <<"a", "b", "c">>}}
RunRoots == RootPages(RunEntries, {[a |-> FALSE, href |-> None, text |-> <<>>]})
RunBars ==
    [n \in ChapterNums |->
        {[status |-> 200,
          page_bar |-> <<[string |-> LAST_PAGE, href |-> GoodHref(n, MaxPages)]>>],
         [status |-> 200, page_bar |-> <<>>],
         [status |-> 404, page_bar |-> <<>>]}]
RunPages ==
    {[status |-> 200, container |-> TRUE, img_status |-> 200,
      h1 |-> Fragment("text", <<"A", "B", "C", "D">>, "pos", FALSE, "A", FALSE)],
     [status |-> 200, container |-> TRUE, img_status |-> 200,
      h1 |-> Fragment("text", <<"A", "B", "C", "D">>, "pos", FALSE, "none", FALSE)],
     [status |-> 404, container |-> FALSE, img_status |-> 200, h1 |-> <<>>]}

\* The listing pages of the site of the run
RunListing == SiteOf("disjoint", d_chapt_to_urls)

(***************************************************************************)
(* The run: one scrape command                                             *)
(***************************************************************************)
R_Start ==
    /\ \E root \in RunRoots : scrape_begin(root)
    /\ UNCHANGED <<exVars, hVars>>

R_SetUpUrls ==
    /\ run_pc = "connecting"
    /\ d_pc = "set_up_urls" /\ d_todo # <<>>
    /\ \E page \in RunBars[Head(d_todo)] : connect_set_up_urls(page)
    /\ UNCHANGED <<exVars, runVars, hVars>>

R_ConnectEnd ==
    /\ run_pc = "connecting"
    /\ connect_end
    /\ UNCHANGED <<exVars, runVars, hVars>>

R_InitEnd == scraper_init_end /\ UNCHANGED <<exVars, hVars>>
R_GetChapters == fill_get_chapters /\ UNCHANGED <<exVars, hVars>>
R_Chapter == fill_chapter /\ UNCHANGED <<exVars, hVars>>
R_Question == (\E page \in RunPages : fill_question(page)) /\ UNCHANGED <<exVars, hVars>>
R_ChapterEnd == fill_chapter_end /\ UNCHANGED <<exVars, hVars>>
R_Save == (\E saved \in BOOLEAN : scrape_save(saved)) /\ UNCHANGED <<exVars, hVars>>

ExIdle == ex_pc = "idle" /\ ex_page = None /\ ex_out = <<>>

\* no call on a bank by itself, no record constructed by itself
HOff ==
    /\ b_res = [op |-> "none"]
    /\ rec_in = [given |-> FALSE]
    /\ rec_out = [done |-> FALSE]

Init ==
    /\ DInit
    /\ ExIdle
    /\ HOff
    /\ run_pc = "start"
    /\ run_chapters = EmptyDict
    /\ run_todo = <<>>
    /\ run_cur = 0
    /\ run_qids = <<>>
    /\ run_attempted = {}
    /\ run_failed = {}
    /\ run_err = NoError
    /\ qb = EmptyBank
    /\ db_file = NoFile
    /\ run_log = {}

Next ==
    \/ R_Start
    \/ R_SetUpUrls
    \/ R_ConnectEnd
    \/ R_InitEnd
    \/ R_GetChapters
    \/ R_Chapter
    \/ R_Question
    \/ R_ChapterEnd
    \/ R_Save

Spec == Init /\ [][Next]_vars

(***************************************************************************)
(* The discoverer harness: any sequence of calls on one QidScraper         *)
(***************************************************************************)
HarnessRoots == RootPages(HarnessEntries, BadEntries)
HarnessBars == [n \in ChapterNums |-> BarPages(n)]

D_Connect ==
    /\ \E root \in HarnessRoots : connect_begin(root)
    /\ UNCHANGED <<exVars, runVars, hVars>>

D_SetUpUrls ==
    /\ d_pc = "set_up_urls" /\ d_todo # <<>>
    /\ \E page \in HarnessBars[Head(d_todo)] : connect_set_up_urls(page)
    /\ UNCHANGED <<exVars, runVars, hVars>>

D_ConnectEnd == connect_end /\ UNCHANGED <<exVars, runVars, hVars>>

D_GetChapters ==
    /\ d_pc = "idle"
    /\ d_res' = [op |-> "get_chapters",
                 out |-> get_chapters(d_connected, d_chapters)]
    /\ d_bar' = NoBar
    /\ UNCHANGED <<d_chapters, d_chapt_to_chapturl, d_chapt_to_urls,
                   d_connected, d_pc, d_todo>>
    /\ UNCHANGED <<exVars, runVars, hVars>>

D_GetChapterToQids ==
    /\ d_pc = "idle"
    /\ \E variant \in SiteVariants :
          d_res' = [op |-> "get_chapter_to_qids", site |-> variant,
                    out |-> get_chapter_to_qids(d_connected, d_chapters,
                                d_chapt_to_urls, SiteOf(variant, d_chapt_to_urls))]
    /\ d_bar' = NoBar
    /\ UNCHANGED <<d_chapters, d_chapt_to_chapturl, d_chapt_to_urls,
                   d_connected, d_pc, d_todo>>
    /\ UNCHANGED <<exVars, runVars, hVars>>

DiscInit == DInit /\ ExIdle /\ RunOff /\ HOff
DiscNext ==
    \/ D_Connect
    \/ D_SetUpUrls
    \/ D_ConnectEnd
    \/ D_GetChapters
    \/ D_GetChapterToQids
SpecDisc == DiscInit /\ [][DiscNext]_vars

(***************************************************************************)
(* The extractor harness: one question page, extracted once                *)
(***************************************************************************)
ExInit ==
    /\ ex_pc = "ready"
    /\ ex_page \in SamplePages
    /\ ex_out = <<>>
    /\ DInit
    /\ RunOff
    /\ HOff

\* The harness calls each method of the extractor on the page, as the unit
\* tests do on the stored sample sections
Extract ==
    /\ ex_pc = "ready"
    /\ ex_pc' = "done"
    /\ ex_out' =
        [is_tf |-> is_tf(ex_page.h1),
         letter_to_answer |-> extract_4c(ex_page.h1),
         matches |-> FindAllOptions(ex_page.h1, 1),
         ops |-> get_ops(ex_page.h1),
         ans |-> get_ans(ex_page.h1),
         q |-> get_question(ex_page, SAMPLE_QID)]
    /\ UNCHANGED ex_page
    /\ UNCHANGED <<dVars, runVars, hVars>>

ExNext == Extract
SpecExtract == ExInit /\ [][ExNext]_vars

(***************************************************************************)
(* The bank harness: any sequence of add_chapter and add_question on one   *)
(* QuestionBank, as the unit tests call them                               *)
(***************************************************************************)
BankDescrs == {<<"a">>, <<"b">>}
BankIds == {<<"x">>, <<"y">>}
BankQuestions ==
    {Question(qid, text, {<<"p">>, <<"q">>}, <<"p">>, None).val :
        qid \in BankIds, text \in {<<"s">>, <<"t">>}}

runOther == <<run_pc, run_chapters, run_todo, run_cur, run_qids, run_attempted,
              run_failed, run_err, db_file, run_log>>

B_AddChapter ==
    \E chapter_num \in ChapterNums, description \in BankDescrs :
    \E r \in {add_chapter(qb, chapter_num, description)} :
        /\ qb' = IF r.ok THEN r.val ELSE qb
        /\ b_res' = [op |-> "add_chapter", chapter_num |-> chapter_num,
                     arg |-> description, before |-> qb,
                     out |-> IF r.ok THEN Ret(None) ELSE r]
        /\ UNCHANGED <<exVars, dVars, runOther, rec_in, rec_out>>

B_AddQuestion ==
    \E chapter_num \in ChapterNums, question \in BankQuestions :
    \E r \in {add_question(qb, question, chapter_num)} :
        /\ qb' = IF r.ok THEN r.val ELSE qb
        /\ b_res' = [op |-> "add_question", chapter_num |-> chapter_num,
                     arg |-> question, before |-> qb,
                     out |-> IF r.ok THEN Ret(None) ELSE r]
        /\ UNCHANGED <<exVars, dVars, runOther, rec_in, rec_out>>

\* The lookups and counts: one of them is called, the bank is not assigned
B_Lookup ==
    /\ \/ \E chapter_num \in ChapterNums :
            \/ b_res' = [op |-> "describe_chapter", chapter_num |-> chapter_num,
                         arg |-> None, before |-> qb,
                         out |-> describe_chapter(qb, chapter_num)]
            \/ b_res' = [op |-> "get_qids_by_chapter", chapter_num |-> chapter_num,
                         arg |-> None, before |-> qb,
                         out |-> get_qids_by_chapter(qb, chapter_num)]
            \/ b_res' = [op |-> "question_count", chapter_num |-> chapter_num,
                         arg |-> None, before |-> qb,
                         out |-> question_count(qb, chapter_num)]
       \/ \E qid \in BankIds :
            b_res' = [op |-> "get_question", chapter_num |-> 0,
                      arg |-> qid, before |-> qb,
                      out |-> qb_get_question(qb, qid)]
       \/ b_res' = [op |-> "question_count", chapter_num |-> 0,
                    arg |-> None, before |-> qb,
                    out |-> Ret(question_count_all(qb))]
    /\ UNCHANGED <<exVars, dVars, runVars, rec_in, rec_out>>

BankInit == DInit /\ ExIdle /\ RunOff /\ HOff
SpecBank == BankInit /\ [][B_AddChapter \/ B_AddQuestion \/ B_Lookup]_vars

(***************************************************************************)
(* The persistence harness: a bank is filled, saved and loaded back, as    *)
(* test_save_and_load_cycle does                                           *)
(***************************************************************************)
\* the image of a question in the image directory of the bank
MemImg(qid) == <<IMG_DIR>> \o qid \o <<".webp">>
DBQuestions ==
    {Question(qid, <<"s">>, {<<"p">>, <<"q">>, <<"r">>}, <<"p">>,
              IF img THEN MemImg(qid) ELSE None).val :
        qid \in BankIds, img \in BOOLEAN}

DB_AddChapter == ~db_file.written /\ B_AddChapter

DB_AddQuestion ==
    /\ ~db_file.written
    /\ \E chapter_num \in ChapterNums, question \in DBQuestions :
       \E r \in {add_question(qb, question, chapter_num)} :
           /\ qb' = IF r.ok THEN r.val ELSE qb
           /\ b_res' = [op |-> "add_question", chapter_num |-> chapter_num,
                        arg |-> question, before |-> qb,
                        out |-> IF r.ok THEN Ret(None) ELSE r]
    /\ UNCHANGED <<exVars, dVars, runOther, rec_in, rec_out>>

\* db.save(qb): `existing` are the image files there are, `writable` is
\* whether the JSON file can be opened for writing
DB_Save ==
    \E existing \in SUBSET {MemImg(qid) : qid \in BankIds}, writable \in BOOLEAN :
    \E r \in {save(qb, DB_IMG_DIR, existing, writable, db_file)} :
        /\ db_file' = r.file
        /\ run_log' = run_log \cup r.printed
        /\ b_res' = [op |-> "save", existing |-> existing, before |-> qb,
                     out |-> Ret(IF r.ok THEN <<"True">> ELSE <<"False">>)]
        /\ UNCHANGED <<exVars, dVars, qb, run_pc, run_chapters, run_todo, run_cur,
                       run_qids, run_attempted, run_failed, run_err, rec_in,
                       rec_out>>

\* db.load()
DB_Load ==
    /\ b_res' = [op |-> "load", before |-> qb, out |-> load(db_file, DB_IMG_DIR)]
    /\ UNCHANGED <<exVars, dVars, runVars, rec_in, rec_out>>

SpecDB ==
    BankInit /\ [][DB_AddChapter \/ DB_AddQuestion \/ DB_Save \/ DB_Load]_vars

(***************************************************************************)
(* The constructors of the two scrapers and the configuration file they    *)
(* read                                                                    *)
(***************************************************************************)
QidKeys == {"c_lst_cls_name", "page_bar_cls_name", "q_lst_cls_name", "base_url"}
QuestionKeys == {"base_url", "url_placeholder", "id_name"}

\* with open(config_path, "r") as file: json.load(file)
load_config(config) ==
    IF config.file = "missing"
    THEN Raise("FileNotFoundError", <<"No such file or directory">>)
    ELSE IF config.file = "unparsable"
    THEN Raise("JSONDecodeError", <<"Expecting value">>)
    ELSE Ret(config.content)

\* dict.get(key): None for an absent key
DictGet(d, key) == IF d[key] = "absent" \/ d[key] = "null" THEN None ELSE <<d[key]>>

\* QidScraper.__init__
QidScraper_init(config) ==
    LET c == load_config(config) IN
    IF ~c.ok THEN c
    ELSE Ret([clst_cid |-> DictGet(c.val, "c_lst_cls_name"),
              pb_cid |-> DictGet(c.val, "page_bar_cls_name"),
              qlst_cid |-> DictGet(c.val, "q_lst_cls_name"),
              base_url |-> DictGet(c.val, "base_url"),
              connected |-> FALSE])

\* QuestionScraper.__init__: site_info[key] raises KeyError for an absent key,
\* the first of them in the order the keys are read
QuestionScraper_init(config) ==
    LET c == load_config(config) IN
    IF ~c.ok THEN c
    ELSE IF c.val["base_url"] = "absent" THEN Raise("KeyError", <<"base_url">>)
    ELSE IF c.val["url_placeholder"] = "absent"
    THEN Raise("KeyError", <<"url_placeholder">>)
    ELSE IF c.val["id_name"] = "absent" THEN Raise("KeyError", <<"id_name">>)
    ELSE Ret([img_dir |-> IMG_DIR,
              base_url |-> DictGet(c.val, "base_url"),
              url_placeholder |-> DictGet(c.val, "url_placeholder"),
              questn_id_name |-> DictGet(c.val, "id_name")])

\* the configuration files: missing, not JSON, or a JSON object in which
\* each key is absent, null or a string
ConfigFiles ==
    {[file |-> f, content |-> [k \in QidKeys \cup QuestionKeys |-> "absent"]] :
        f \in {"missing", "unparsable"}}
    \cup [file : {"json"},
          content : [QidKeys \cup QuestionKeys -> {"absent", "null", "v"}]]

Cfg_Construct ==
    /\ \E config \in ConfigFiles :
          b_res' = [op |-> "init", config |-> config,
                    qid_scraper |-> QidScraper_init(config),
                    question_scraper |-> QuestionScraper_init(config)]
    /\ UNCHANGED <<exVars, dVars, runVars, rec_in, rec_out>>

SpecConfig == BankInit /\ [][Cfg_Construct]_vars

(***************************************************************************)
(* The record harness: each record constructor called once on the same     *)
(* arguments, as the unit tests of the records do                          *)
(***************************************************************************)
Opt(i) == <<"o">> \o IntToStr(i)
\* the option texts a set of answers is made of, the empty text among them
OptionPool == {Opt(i) : i \in 1..MaxOptions} \cup {<<>>}
RecordArgs ==
    [given : {TRUE},
     qid : {<<"q">>, <<>>, None},
     question : {<<"t">>, <<>>, <<"int 123">>},
     answers : SUBSET OptionPool,
     correct_answer : {Opt(1), <<"z">>, None},
     img : {None, <<"img">>, <<"int 123">>}]

RecInit ==
    /\ DInit /\ ExIdle /\ RunOff
    /\ b_res = [op |-> "none"]
    /\ rec_in \in RecordArgs
    /\ rec_out = [done |-> FALSE]

Construct ==
    /\ rec_in.given /\ ~rec_out.done
    /\ rec_out' =
        [done |-> TRUE,
         Question |-> Question(rec_in.qid, rec_in.question, rec_in.answers,
                               rec_in.correct_answer, rec_in.img),
         FourChoiceText |-> FourChoiceText(rec_in.qid, rec_in.question,
                                rec_in.answers, rec_in.correct_answer, rec_in.img),
         TwoChoiceText |-> TwoChoiceText(rec_in.qid, rec_in.question,
                                rec_in.answers, rec_in.correct_answer, rec_in.img),
         FourChoiceImage |-> FourChoiceImage(rec_in.qid, rec_in.question,
                                rec_in.answers, rec_in.correct_answer, rec_in.img),
         TwoChoiceImage |-> TwoChoiceImage(rec_in.qid, rec_in.question,
                                rec_in.answers, rec_in.correct_answer, rec_in.img)]
    /\ UNCHANGED <<exVars, dVars, runVars, b_res, rec_in>>

SpecRecord == RecInit /\ [][Construct]_vars

(***************************************************************************)
(* Properties of the content extractor (SpecExtract)                       *)
(***************************************************************************)
ExDone == ex_pc = "done"
HasToken(s, t) == \E i \in 1..Len(s) : s[i] = t

\* An underlined x directly after the answer marker, at position i
MarkAt(s, i, xs) ==
    /\ i + 3 <= Len(s)
    /\ s[i] = ANS /\ s[i + 1] = UO /\ s[i + 2] \in xs /\ s[i + 3] = UC
HasMark(s, xs) == \E i \in 1..Len(s) : MarkAt(s, i, xs)
FirstMark(s, xs) ==
    CHOOSE i \in 1..Len(s) :
        MarkAt(s, i, xs) /\ \A j \in 1..(i - 1) : ~MarkAt(s, j, xs)

Fetched == Is2xx(ex_page.status) /\ ex_page.container
Unexpected(m) == <<"Unexpected error: ", m>>
FailsWith(k, m) ==
    /\ ~ex_out.q.out.ok
    /\ ex_out.q.out.kind = k
    /\ ex_out.q.out.msg = m

\* C5: get_question lets only JSYKSConnectionError and
\* JSYKSContentRetrievalError out: a failed page or image fetch is the
\* connection error itself, unchanged; a missing container, a missing link,
\* a missing answer marker and a record that fails validation arrive as a
\* content error that carries the message of the original exception.
C5_TwoFailureKinds ==
    ExDone =>
        /\ ex_out.q.out.ok \/ ex_out.q.out.kind \in
              {"JSYKSConnectionError", "JSYKSContentRetrievalError"}
        /\ ~Is2xx(ex_page.status) =>
              FailsWith("JSYKSConnectionError",
                        <<"Failed to connect to ", format_url(SAMPLE_QID)>>)
        /\ Is2xx(ex_page.status) /\ ~ex_page.container =>
              FailsWith("JSYKSContentRetrievalError",
                        Unexpected("'NoneType' object has no attribute 'find'"))
        /\ Fetched /\ ~HasToken(ex_page.h1, AO) =>
              FailsWith("JSYKSContentRetrievalError",
                        Unexpected("'NoneType' object has no attribute 'get_text'"))
        /\ Fetched /\ HasToken(ex_page.h1, AO)
              /\ ~HasMark(ex_page.h1, {DUI, CUO}) /\ ~HasMark(ex_page.h1, Letters) =>
              FailsWith("JSYKSContentRetrievalError",
                        Unexpected("'NoneType' object has no attribute 'group'"))
        /\ Fetched /\ HasToken(ex_page.h1, AO) /\ ex_out.ans.ok
              /\ HasToken(ex_page.h1, IMG) /\ ~Is2xx(ex_page.img_status) =>
              FailsWith("JSYKSConnectionError",
                        <<"Failed to download image from ",
                          <<"https://img/", "src">> >>)
        /\ Fetched /\ StartsWithAt(ex_page.h1, <<AO, AC>>, 1) /\ ex_out.ans.ok
              /\ (HasToken(ex_page.h1, IMG) => Is2xx(ex_page.img_status)) =>
              FailsWith("JSYKSContentRetrievalError", Unexpected("question"))

\* C5 witness: an unexpected inner exception arrived wrapped
C5_Witness ==
    /\ ExDone /\ Fetched /\ ~HasToken(ex_page.h1, AO)
    /\ ~ex_out.q.out.ok
    /\ ex_out.q.out.kind = "JSYKSContentRetrievalError"

\* C6: a fragment is true/false exactly when it holds an underlined dui or
\* cuo directly after the answer marker; then the options are {dui, cuo} and
\* the correct option is one that is so underlined; any other fragment takes
\* the four-choice path, its options being the texts of the letter scan.
C6_Classification ==
    ExDone /\ ex_page.container =>
        /\ ex_out.is_tf <=> HasMark(ex_page.h1, {DUI, CUO})
        /\ HasMark(ex_page.h1, {DUI, CUO}) =>
              /\ ex_out.ops = Ret({<<DUI>>, <<CUO>>})
              /\ ex_out.ans.ok
              /\ \E x \in {DUI, CUO} :
                    ex_out.ans.val = <<x>> /\ HasMark(ex_page.h1, {x})
        /\ ~HasMark(ex_page.h1, {DUI, CUO}) =>
              /\ ex_out.ops = Ret(Values(ex_out.letter_to_answer))
              /\ ex_out.ans.ok =>
                    ex_out.ans.val \in Values(ex_out.letter_to_answer)

\* C6 witness: a fragment marked false, with option lines, classified true/false
C6_Witness ==
    /\ ExDone /\ ex_page.container
    /\ HasMark(ex_page.h1, {CUO}) /\ ~HasMark(ex_page.h1, {DUI})
    /\ Len(ex_out.matches) = 4
    /\ ex_out.is_tf /\ ex_out.ans.ok /\ ex_out.ans.val = <<CUO>>

MatchedLetters == {ex_out.matches[i][1] : i \in 1..Len(ex_out.matches)}

\* C7 (the claim as stated): on a fragment that is not true/false, option
\* extraction fails with the content error unless the scan has exactly four
\* matches whose letters are exactly A-D, and no record with another number
\* of options is produced.
C7_FourChoiceBoundary ==
    ExDone /\ Fetched /\ ~ex_out.is_tf =>
        /\ (Len(ex_out.matches) # 4 \/ MatchedLetters # Letters) =>
              /\ ~ex_out.ops.ok
              /\ ex_out.ops.kind = "JSYKSContentRetrievalError"
        /\ ex_out.q.out.ok => Cardinality(ex_out.q.out.val.answers) = 4

NotConnectedFailure(out) ==
    /\ ~out.ok
    /\ out.kind = "JSYKSContentRetrievalError"
    /\ out.msg = NOT_CONNECTED

Getters == {"get_chapters", "get_chapter_to_qids"}

\* C4: the discoverer starts not connected; it becomes connected only in the
\* step that ends a connect() whose chapter parse and every pagination step
\* succeeded; while it is not connected (also after a connect() that failed
\* partway) get_chapters and get_chapter_to_qids fail with the not-connected
\* error and return nothing; once connected it stays connected.
C4_StateMachine ==
    /\ ~d_connected
    /\ [](~d_connected /\ d_res.op \in Getters => NotConnectedFailure(d_res.out))
    /\ [][/\ d_connected => d_connected'
          /\ ~d_connected /\ d_connected' =>
                /\ d_pc = "set_up_urls" /\ d_todo = <<>>
                /\ \A i \in 1..Len(d_chapters.keys) :
                      d_chapters.keys[i] \in DOMAIN d_chapt_to_urls
                /\ d_res'.op = "connect" /\ d_res'.out.ok
          /\ d_res'.op = "connect" /\ ~d_res'.out.ok => d_connected' = d_connected
         ]_vars

\* a connect() failed after storing chapters and some page lists, and the
\* chapter list was then requested
C4_Witness ==
    /\ ~d_connected
    /\ d_res.op = "get_chapters"
    /\ d_chapters.keys # <<>>
    /\ DOMAIN d_chapt_to_urls # {}

\* the latest step of connect() read the pagination bar of a chapter and went on
BarRead == d_bar.chapter # 0 /\ d_pc = "set_up_urls"
HasLastPageLink(bar) == \E i \in 1..Len(bar) : bar[i].string = LAST_PAGE
FirstLastPageLink(bar) ==
    bar[CHOOSE i \in 1..Len(bar) :
            /\ bar[i].string = LAST_PAGE
            /\ \A j \in 1..(i - 1) : bar[j].string # LAST_PAGE]
\* the href ends in _<code>_<n>
EndsIn(href, code, n) ==
    LET tl == <<US>> \o code \o <<US>> \o IntToStr(n) IN
    /\ href # None
    /\ Len(href) > Len(tl)
    /\ SubSeq(href, Len(href) - Len(tl) + 1, Len(href)) = tl
ChapterCodes == {ChapterCode(n) : n \in ChapterNums}

\* C9: when a chapter's pagination bar has been read, the link that counts is
\* its last-page link if it has one and its second-to-last link otherwise;
\* with that link's href ending in _<code>_<n>, the chapter's page list is
\* exactly <base>_<code>_1 .. <base>_<code>_<n>, ascending, without duplicates.
C9_PaginationDerivation ==
    BarRead =>
        LET bar == d_bar.page.page_bar
            link == IF HasLastPageLink(bar) THEN FirstLastPageLink(bar)
                    ELSE bar[Len(bar) - 1]
            urls == d_chapt_to_urls[d_bar.chapter]
        IN  /\ HasLastPageLink(bar) \/ Len(bar) >= 2
            /\ \E code \in ChapterCodes, n \in 0..MaxPages :
                  /\ EndsIn(link.href, code, n)
                  /\ Len(urls) = n
                  /\ \A i \in 1..n :
                        urls[i] = D_BASE_URL \o <<US>> \o code \o <<US>> \o IntToStr(i)
                  /\ \A i, j \in 1..n : i # j => urls[i] # urls[j]

\* a bar without a last-page link whose second-to-last link gave pages
C9_Witness ==
    /\ BarRead
    /\ ~HasLastPageLink(d_bar.page.page_bar)
    /\ Len(d_bar.page.page_bar) = MaxLinks
    /\ Len(d_chapt_to_urls[d_bar.chapter]) >= 1

\* the bar gives no URL of the form <base>_<code>_<n>
NoPageUrl(bar) ==
    \/ ~HasLastPageLink(bar) /\ Len(bar) < 2
    \/ LET link == IF HasLastPageLink(bar) THEN FirstLastPageLink(bar)
                   ELSE bar[Len(bar) - 1]
       IN  ~\E code \in ChapterCodes \cup {<<"150">>}, n \in 0..MaxPages :
               EndsIn(link.href, code, n) /\ Len(link.href) = Len(code) + Len(IntToStr(n)) + 3

\* C10: when the pagination bar of a chapter gives no URL of the form
\* <base>_<code>_<n>, connect() fails with JSYKSContentRetrievalError.
C10_PaginationFailure ==
    (d_bar.chapter # 0 /\ Is2xx(d_bar.page.status) /\ NoPageUrl(d_bar.page.page_bar))
        => /\ d_pc = "idle"
           /\ d_res.op = "connect"
           /\ d_res.out.kind = "JSYKSContentRetrievalError"

\* connect() stopped inside _extract_chapters, on an entry of the menu
ChapterParseFailed ==
    /\ d_res.op = "connect"
    /\ d_res.stage = "_extract_chapters"
    /\ ~d_res.out.ok

\* C11: when an entry of the chapter menu does not parse as
\* "di N zhang : description", connect() fails with
\* JSYKSContentRetrievalError, and the chapters read before that entry cannot
\* be obtained: get_chapters() fails.
C11_ChapterListFormat ==
    ChapterParseFailed =>
        /\ d_res.out.kind = "JSYKSContentRetrievalError"
        /\ ~get_chapters(d_connected, d_chapters).ok

\* the latest call was get_chapter_to_qids, and it returned a mapping
QidsReturned == d_res.op = "get_chapter_to_qids" /\ d_res.out.ok
\* the listing pages that call was served
ServedSite == SiteOf(d_res.site, d_chapt_to_urls)
\* href is /Post/<id>.<ext>
IsPostHref(href) ==
    /\ href # None
    /\ LET parts == Split(href, SLASH) IN
        /\ Len(parts) = 3
        /\ parts[1] = <<>>
        /\ parts[2] = <<"Post">>
        /\ Len(Split(parts[3], DOT)) = 2
        /\ Split(parts[3], DOT)[1] # <<>>
PostIds(a_tags) ==
    {Split(Split(a_tags[i], SLASH)[3], DOT)[1] :
        i \in {j \in 1..Len(a_tags) : IsPostHref(a_tags[j])}}
Keys(dict) == {dict.keys[i] : i \in 1..Len(dict.keys)}

\* C12: a mapping returned by get_chapter_to_qids() has exactly the chapters
\* of the discoverer as keys, and the value of each chapter is exactly the set
\* of the ids of the /Post/<id>.<ext> anchors of the chapter's listing pages,
\* an id shown on several pages being there once.
C12_ChapterToIds ==
    QidsReturned =>
        /\ d_connected
        /\ DOMAIN d_res.out.val = Keys(d_chapters)
        /\ \A c \in DOMAIN d_res.out.val :
              d_res.out.val[c] =
                  UNION {PostIds(ServedSite[d_chapt_to_urls[c][i]].a_tags) :
                            i \in 1..Len(d_chapt_to_urls[c])}

\* the latest call was get_chapter_to_qids on a connected discoverer
QidsCalled == d_res.op = "get_chapter_to_qids" /\ d_connected
\* the listing page cannot be fetched, or an anchor of it holds no id
PageBroken(page) ==
    \/ ~Is2xx(page.status)
    \/ \E i \in 1..Len(page.a_tags) :
          \/ page.a_tags[i] = None
          \/ Len(Split(page.a_tags[i], SLASH)) < 3
ErrorOf(page) ==
    IF ~Is2xx(page.status) THEN "JSYKSConnectionError"
    ELSE IF \E i \in 1..Len(page.a_tags) : page.a_tags[i] = None
    THEN "AttributeError"
    ELSE "IndexError"
\* the listing pages of the chapters of the discoverer, as served to the call
ServedPages ==
    UNION {{ServedSite[d_chapt_to_urls[c][i]] : i \in 1..Len(d_chapt_to_urls[c])} :
              c \in Keys(d_chapters) \cap DOMAIN d_chapt_to_urls}

\* C13: when one listing page of one chapter cannot be fetched or read,
\* get_chapter_to_qids() fails with the error of such a page and returns no
\* mapping, whatever the pages before it gave.
C13_ListingAllOrNothing ==
    (QidsCalled /\ \E page \in ServedPages : PageBroken(page)) =>
        /\ ~d_res.out.ok
        /\ d_res.out.val = None
        /\ \E page \in ServedPages :
              PageBroken(page) /\ d_res.out.kind = ErrorOf(page)

\* the last page of a chapter was unreachable after its first page was read
C13_Witness ==
    /\ QidsCalled
    /\ d_res.site = "unreachable"
    /\ d_res.out.kind = "JSYKSConnectionError"
    /\ \E c \in DOMAIN d_chapt_to_urls :
          /\ Len(d_chapt_to_urls[c]) = MaxPages
          /\ ~PageBroken(ServedSite[d_chapt_to_urls[c][1]])

\* the latest fetch of connect(), of the root page (chapter 0) or of a
\* chapter's first page, was answered with a status outside 200..299
FetchRefused == d_bar.page.status # 0 /\ ~Is2xx(d_bar.page.status)

\* C14: when the root page or the first page of a chapter is answered with a
\* status outside 200..299, connect() fails with JSYKSConnectionError and
\* goes no further.
C14_FetchFailure ==
    FetchRefused =>
        /\ d_pc = "idle"
        /\ d_res.op = "connect"
        /\ d_res.out.kind = "JSYKSConnectionError"

(***************************************************************************)
(* Properties of the bank (SpecBank)                                       *)
(***************************************************************************)
\* C15: in every state of a bank, each id of a chapter's id set has a record
\* in the id -> record mapping, stored under that id and holding it as its
\* qid; each record is in the id set of a chapter of the bank; each chapter
\* with an id set has a description.
C15_BankIntegrity ==
    /\ \A c \in DOMAIN qb.chap_to_ids : \A qid \in qb.chap_to_ids[c] :
          qid \in DOMAIN qb.id_to_q /\ qb.id_to_q[qid].qid = qid
    /\ \A qid \in DOMAIN qb.id_to_q :
          /\ qb.id_to_q[qid].qid = qid
          /\ \E c \in DOMAIN qb.chapters : qid \in qb.chap_to_ids[c]
    /\ DOMAIN qb.chap_to_ids \subseteq DOMAIN qb.chapters

\* a bank with two chapters and two records, after a call that failed
C15_Witness ==
    /\ Cardinality(DOMAIN qb.chapters) = 2
    /\ Cardinality(DOMAIN qb.id_to_q) = 2
    /\ b_res.op # "none" /\ ~b_res.out.ok

\* the latest call on the bank
AddQuestionCalled == b_res.op = "add_question"
AddChapterCalled == b_res.op = "add_chapter"

\* C16: add_question with a chapter number that is not in the bank fails with
\* the unknown-chapter error (KeyError) and leaves the bank as it was: the
\* record is not stored, the chapter gets no id set, the count is the same.
C16_UnknownChapter ==
    (AddQuestionCalled /\ b_res.chapter_num \notin DOMAIN b_res.before.chapters) =>
        /\ b_res.out.kind = "KeyError"
        /\ qb = b_res.before
        /\ b_res.chapter_num \notin DOMAIN qb.chap_to_ids
        /\ question_count_all(qb) = question_count_all(b_res.before)

\* add_question for an absent chapter on a bank that holds a record, the
\* record handed over not being in the bank
C16_Witness ==
    /\ AddQuestionCalled
    /\ b_res.chapter_num \notin DOMAIN b_res.before.chapters
    /\ DOMAIN b_res.before.id_to_q # {}
    /\ b_res.arg.qid \notin DOMAIN b_res.before.id_to_q

\* C17: add_chapter with a number that is in the bank fails with the
\* duplicate-chapter error (ValueError) and changes nothing: the chapter keeps
\* its first description and its id set.
C17_DuplicateChapter ==
    (AddChapterCalled /\ b_res.chapter_num \in DOMAIN b_res.before.chapters) =>
        /\ b_res.out.kind = "ValueError"
        /\ qb = b_res.before
        /\ qb.chapters[b_res.chapter_num] = b_res.before.chapters[b_res.chapter_num]
        /\ qb.chap_to_ids[b_res.chapter_num] =
              b_res.before.chap_to_ids[b_res.chapter_num]

\* a chapter holding a question is added again with another description
C17_Witness ==
    /\ AddChapterCalled
    /\ b_res.chapter_num \in DOMAIN b_res.before.chapters
    /\ b_res.arg # b_res.before.chapters[b_res.chapter_num]
    /\ b_res.before.chap_to_ids[b_res.chapter_num] # {}

C22_DescriptionKept ==
    [][/\ \A n \in DOMAIN qb.chapters :
             describe_chapter(qb', n) = Ret(qb.chapters[n])
       /\ (b_res'.op = "add_chapter" /\ b_res'.out.ok) =>
             describe_chapter(qb', b_res'.chapter_num) = Ret(b_res'.arg)]_vars

\* describe_chapter answers for a chapter that holds a question, after an
\* add_chapter with another description for it can have failed
C22_Witness ==
    /\ b_res.op = "describe_chapter"
    /\ b_res.out.ok
    /\ b_res.out.val = <<"a">>
    /\ qb.chap_to_ids[b_res.chapter_num] # {}
    /\ Cardinality(DOMAIN qb.chapters) = MaxChapters

RECURSIVE SumOfCounts(_, _)
SumOfCounts(bank, chapters) ==
    IF chapters = {} THEN 0
    ELSE LET c == CHOOSE x \in chapters : TRUE IN
         question_count(bank, c).val + SumOfCounts(bank, chapters \ {c})

\* C23: question_count() is the number of records of the bank and the sum of
\* question_count(c) over the chapters; question_count(c) is the size of the
\* id set of c, and fails with the unknown-chapter error (KeyError) for a
\* chapter that is not in the bank; a count that was called gave that.
C23_Counts ==
    /\ question_count_all(qb) = Cardinality({qb.id_to_q[i] : i \in DOMAIN qb.id_to_q})
    /\ question_count_all(qb) = SumOfCounts(qb, DOMAIN qb.chapters)
    /\ \A c \in ChapterNums :
          IF c \in DOMAIN qb.chapters
          THEN question_count(qb, c) = Ret(Cardinality(qb.chap_to_ids[c]))
          ELSE /\ ~question_count(qb, c).ok
               /\ question_count(qb, c).kind = "KeyError"
    /\ (b_res.op = "question_count" /\ b_res.chapter_num # 0) =>
          b_res.out = question_count(qb, b_res.chapter_num)
    /\ (b_res.op = "question_count" /\ b_res.chapter_num = 0) =>
          b_res.out = Ret(question_count_all(qb))

\* a count was asked for a chapter that is not in a bank with two records
C23_Witness ==
    /\ b_res.op = "question_count"
    /\ b_res.chapter_num # 0
    /\ ~b_res.out.ok
    /\ Cardinality(DOMAIN qb.id_to_q) = 2

Lookups == {"describe_chapter", "get_qids_by_chapter", "get_question",
            "question_count"}

\* C24: get_question(id) gives the record added under id, and fails with the
\* not-found error (LookupError) when no record was added under it;
\* get_qids_by_chapter(n) and describe_chapter(n) fail with LookupError when
\* chapter n is not in the bank; a lookup leaves the bank as it was.
C24_Lookups ==
    /\ b_res.op \in Lookups => qb = b_res.before
    /\ (b_res.op = "add_question" /\ b_res.out.ok) =>
          qb_get_question(qb, b_res.arg.qid) = Ret(b_res.arg)
    /\ b_res.op = "get_question" =>
          IF b_res.arg \in DOMAIN qb.id_to_q
          THEN b_res.out.ok /\ b_res.out.val.qid = b_res.arg
          ELSE ~b_res.out.ok /\ b_res.out.kind = "LookupError"
    /\ (b_res.op \in {"get_qids_by_chapter", "describe_chapter"}
          /\ b_res.chapter_num \notin DOMAIN qb.chapters) =>
            ~b_res.out.ok /\ b_res.out.kind = "LookupError"
    /\ (b_res.op = "get_qids_by_chapter"
          /\ b_res.chapter_num \in DOMAIN qb.chapters) =>
            b_res.out = Ret(qb.chap_to_ids[b_res.chapter_num])

\* get_question for an id that is not in a bank that holds another record
C24_Witness ==
    /\ b_res.op = "get_question"
    /\ ~b_res.out.ok
    /\ DOMAIN qb.id_to_q # {}

\* a load of the file a successful save wrote; the bank saved is still qb
Loaded == b_res.op = "load" /\ db_file.written

\* C25: saving a bank and loading it back gives a bank with the same chapter
\* numbers, descriptions and per-chapter id sets and, for every question,
\* the same id, text, set of options and correct option, its image path
\* being the one the persistence convention gives (image directory of the
\* database followed by the id)
C25_RoundTrip ==
    Loaded =>
        /\ b_res.out.ok
        /\ DOMAIN b_res.out.val.chapters = DOMAIN qb.chapters
        /\ \A n \in DOMAIN qb.chapters :
              /\ describe_chapter(b_res.out.val, n) = describe_chapter(qb, n)
              /\ get_qids_by_chapter(b_res.out.val, n) = get_qids_by_chapter(qb, n)
        /\ DOMAIN b_res.out.val.id_to_q = DOMAIN qb.id_to_q
        /\ \A qid \in DOMAIN qb.id_to_q :
              LET new == b_res.out.val.id_to_q[qid]
                  old == qb.id_to_q[qid]
              IN  /\ new.qid = old.qid
                  /\ new.question = old.question
                  /\ new.answers = old.answers
                  /\ new.correct_answer = old.correct_answer
                  /\ new.img_path = make_img_path(DB_IMG_DIR, old)

\* a bank of two chapters and two questions came back
C25_Witness ==
    /\ Loaded /\ b_res.out.ok
    /\ DOMAIN qb.chapters = ChapterNums
    /\ DOMAIN b_res.out.val.id_to_q = BankIds
    /\ \E n \in ChapterNums : Cardinality(b_res.out.val.chap_to_ids[n]) = 1

\* C29: every image path of a bank loaded after a successful save is the
\* path of a file save copied into the image directory of the database,
\* and a question that had no image has no image path after the round trip
C29_ImagePathsBacked ==
    Loaded /\ b_res.out.ok =>
        \A qid \in DOMAIN b_res.out.val.id_to_q :
            LET new == b_res.out.val.id_to_q[qid]
                old == qb.id_to_q[qid]
            IN  /\ new.img_path # None => new.img_path \in db_file.images
                /\ old.img_path = None => new.img_path = None

\* the configuration is a parsable file that has every key, none of them null
GoodConfig(config, keys) ==
    config.file = "json" /\ \A k \in keys : config.content[k] = "v"

\* C26: constructing the id discoverer or the content extractor with a
\* configuration that is missing, unparsable or lacks a required key fails
\* with ConfigError, and no component is constructed holding a null
\* configuration value
C26_ConfigErrorsFatal ==
    b_res.op = "init" =>
        /\ ~GoodConfig(b_res.config, QidKeys) =>
              ~b_res.qid_scraper.ok /\ b_res.qid_scraper.kind = "ConfigError"
        /\ ~GoodConfig(b_res.config, QuestionKeys) =>
              /\ ~b_res.question_scraper.ok
              /\ b_res.question_scraper.kind = "ConfigError"

(***************************************************************************)
(* Properties of the records (SpecRecord)                                  *)
(***************************************************************************)
Constructors ==
    {"Question", "FourChoiceText", "TwoChoiceText", "FourChoiceImage",
     "TwoChoiceImage"}
Constructed == rec_out.done
\* the constructor made a record
Exists(class) == rec_out[class].ok
\* the constructor raised the format error and made nothing
FormatError(class) ==
    /\ ~rec_out[class].ok
    /\ rec_out[class].kind = "IncorrectFormatError"
    /\ rec_out[class].val = None

\* C19: a record that exists has its correct answer among its answers, and
\* holds the arguments it was made from; a construction whose correct answer
\* is not among the answers, or is None, fails with IncorrectFormatError and
\* makes no record.
C19_CorrectAmongOptions ==
    Constructed =>
        \A class \in Constructors :
            /\ Exists(class) =>
                  /\ rec_out[class].val.correct_answer \in rec_out[class].val.answers
                  /\ rec_out[class].val.correct_answer = rec_in.correct_answer
                  /\ rec_out[class].val.answers = rec_in.answers
            /\ rec_in.correct_answer \notin rec_in.answers => FormatError(class)

\* four answers without the correct one, which alone keeps FourChoiceText
\* from making the record
C19_Witness ==
    /\ Constructed
    /\ Cardinality(rec_in.answers) = 4
    /\ <<>> \notin rec_in.answers
    /\ rec_in.correct_answer = <<"z">>
    /\ rec_in.qid # <<>> /\ rec_in.question # <<>> /\ rec_in.img = None
    /\ FormatError("FourChoiceText") /\ FormatError("Question")

\* C20: a record that exists has two answers or four; a construction with a
\* set of answers of another size fails with IncorrectFormatError.
C20_TwoOrFourOptions ==
    Constructed =>
        \A class \in Constructors :
            /\ Exists(class) => Cardinality(rec_out[class].val.answers) \in {2, 4}
            /\ Cardinality(rec_in.answers) \notin {2, 4} => FormatError(class)

\* a field of the arguments is malformed: an id or a text that is empty or
\* not a string, fewer than two answers or an empty one, an image path that
\* is given and is not a string
Malformed(args) ==
    \/ args.qid = <<>> \/ args.qid \in NonStr
    \/ args.question = <<>> \/ args.question \in NonStr
    \/ Cardinality(args.answers) < 2 \/ <<>> \in args.answers
    \/ args.img # None /\ args.img \in NonStr

\* C21: Question with a malformed field fails with IncorrectFormatError and
\* makes no record; a record that exists has no malformed field.
C21_MalformedFields ==
    Constructed =>
        /\ Malformed(rec_in) => FormatError("Question")
        /\ Exists("Question") =>
              ~Malformed([qid |-> rec_out.Question.val.qid,
                          question |-> rec_out.Question.val.question,
                          answers |-> rec_out.Question.val.answers,
                          img |-> rec_out.Question.val.img_path])

\* the image path alone is malformed
C21_Witness ==
    /\ Constructed
    /\ rec_in.img = <<"int 123">>
    /\ rec_in.qid = <<"q">> /\ rec_in.question = <<"t">>
    /\ rec_in.answers = {Opt(1), Opt(2)} /\ rec_in.correct_answer = Opt(1)
    /\ FormatError("Question")

\* C28: whenever get_question fails, for any reason, record validation
\* after the parsing included, no image file of the id was written during
\* the call
C28_NoImageAfterFailure ==
    ex_pc = "done" /\ ~ex_out.q.out.ok => ~ex_out.q.written

(***************************************************************************)
(* Properties of the run (Spec)                                            *)
(***************************************************************************)
RunEnded == run_pc \in {"done", "aborted"}

\* the ids of each chapter as get_chapter_to_qids gives them on the site of the run
Discovered ==
    get_chapter_to_qids(d_connected, d_chapters, d_chapt_to_urls, RunListing)
DiscoveredIds(c) ==
    IF Discovered.ok /\ c \in DOMAIN Discovered.val THEN Discovered.val[c] ELSE {}
DiscoveredChapters == {d_chapters.keys[i] : i \in 1..Len(d_chapters.keys)}

\* C1: when the extraction of an id has failed during fill_question_bank, the
\* failure is logged, the run does not abort, and every id of every chapter
\* has been attempted when the run ends.
C1_FailureIsolation ==
    (RunEnded /\ run_failed # {}) =>
        /\ run_pc = "done"
        /\ run_failed \subseteq run_attempted
        /\ \A c \in DiscoveredChapters :
              \A id \in DiscoveredIds(c) : <<c, <<id>> >> \in run_attempted

\* C2: every discovered chapter is added to the bank and each id of its
\* discovered id set is attempted, so that after a fill_question_bank in which
\* no extraction failed the bank's id set of every chapter is the discovered one.
C2_FillsDiscoveredIds ==
    (RunEnded /\ d_connected /\ run_failed = {}) =>
        /\ run_pc = "done"
        /\ \A c \in DiscoveredChapters :
              /\ c \in DOMAIN qb.chapters
              /\ qb.chap_to_ids[c] = {<<id>> : id \in DiscoveredIds(c)}

DiscoveryFailed == d_res.op = "connect" /\ ~d_res.out.ok

\* C3: once a step of discovery (the chapter-list parse, or the pagination of
\* any chapter) has failed, discovery has stopped without connecting, the
\* bank is empty and nothing is saved; the only step the run then takes is to
\* abort with that error, and an aborted run takes no further step.
C3_DiscoveryAllOrNothing ==
    /\ [](DiscoveryFailed =>
            /\ d_pc = "idle" /\ ~d_connected
            /\ run_pc \in {"connecting", "aborted"}
            /\ qb = EmptyBank
            /\ db_file = NoFile)
    /\ [][/\ DiscoveryFailed =>
                /\ run_pc' = "aborted"
                /\ run_err' = d_res.out
                /\ qb' = EmptyBank
                /\ db_file' = NoFile
          /\ run_pc = "aborted" => FALSE
         ]_vars

\* the pagination of a later chapter failed after an earlier one was set up,
\* and the run has aborted
C3_Witness ==
    /\ run_pc = "aborted"
    /\ DiscoveryFailed
    /\ run_err = d_res.out
    /\ \E c \in DOMAIN d_chapt_to_urls : d_chapt_to_urls[c] # <<>>

\* C27: every exception that is caught and not raised again leaves a log
\* record that names what failed: the question loop one that names the
\* question id, save one that tells of the save that failed
C27_NoSilentSwallow ==
    /\ \A p \in run_failed :
          \E rec \in run_log :
              /\ rec.stream = "log" /\ rec.level = "error"
              /\ Contains(rec.msg, p[2])
    /\ SAVE_ERROR \in run_log =>
          \E rec \in run_log :
              rec.stream = "log" /\ rec.level = "error" /\ rec.msg = SAVE_ERROR.msg

\* C30: the success record and the completion message are emitted only in a
\* run whose save wrote the JSON file; when save fails the failure is
\* reported and the success is not
C30_SuccessOnlyAfterSave ==
    /\ (SUCCESS_LOG \in run_log \/ COMPLETE_MSG \in run_log) => db_file.written
    /\ run_pc = "done" /\ ~db_file.written => SAVE_ERROR \in run_log

====
